---- MODULE Spec2Model ----
(***************************************************************************)
(* A model of the service layer of the exam-prep backend: the subject      *)
(* service (createSubject, getSubjects, getSubjectById, updateSubject,     *)
(* deleteSubject) and the quiz service (QuizService), over an abstract     *)
(* document store, together with the question router, the physics lesson   *)
(* controller and the start-up of the server process.  Strings are         *)
(* sequences of one-character strings, so that toUpperCase and the         *)
(* `^name$` regular expression are computed as the code computes them.     *)
(***************************************************************************)
EXTENDS Integers, Sequences, FiniteSets, TLC

VARIABLES
  subjects,     \* the Subject collection: a sequence of documents, _id = index
  uniqueIndex,  \* whether the store enforces unique indexes on Subject
  response,     \* what the last completed service call returned or threw
  reqs,         \* in-flight createSubject calls of the interleaved specification
  quizzes,      \* the Quiz collection: _id -> document, for the stored ids
  nextQuizId,   \* the _id the next created quiz gets (ids are never reused)
  results,      \* the QuizResult collection, in order of insertion
  now,          \* the clock (new Date())
  request,      \* the HTTP request travelling through the question router
  calls,        \* the latest service operations the controllers invoked
  lessons,      \* the Lesson collection: _id -> document, for the stored ids
  proc,         \* the server process: its environment and how far it got
  del           \* a deleteQuiz call suspended at one of its awaits

vars == <<subjects, uniqueIndex, response, reqs,
          quizzes, nextQuizId, results, now,
          request, calls, lessons, proc, del>>

subjectVars == <<subjects, uniqueIndex, reqs>>
quizVars == <<quizzes, nextQuizId, results, now>>
appVars == <<request, calls, lessons, proc, del>>

(***************************************************************************)
(* Bounds of the model.                                                    *)
(***************************************************************************)
MaxSubjects == 2
MaxReqs == 2
MaxQuizzes == 2
MaxResults == 3
MaxTime == 2

\* Subject names and codes the callers supply.
Names == { <<"a">>, <<"A">>, <<"b">>, <<"a", "+">>, <<"+", "a">> }
Codes == { <<"m">>, <<"M">>, <<"p">>, <<"q">> }

\* A field the caller left out (an empty string is falsy in the code's tests).
Absent == <<>>

(***************************************************************************)
(* String helpers.                                                         *)
(***************************************************************************)
UpperChar(c) ==
  CASE c = "a" -> "A" [] c = "b" -> "B" [] c = "m" -> "M"
    [] c = "p" -> "P" [] c = "q" -> "Q" [] OTHER -> c

LowerChar(c) ==
  CASE c = "A" -> "a" [] c = "B" -> "b" [] c = "M" -> "m"
    [] c = "P" -> "p" [] c = "Q" -> "q" [] OTHER -> c

toUpperCase(s) == [i \in 1..Len(s) |-> UpperChar(s[i])]

\* Equality of two strings compared case-insensitively.
EqualsIgnoreCase(s, t) ==
  /\ Len(s) = Len(t)
  /\ \A i \in 1..Len(s) : LowerChar(s[i]) = LowerChar(t[i])

(***************************************************************************)
(* new RegExp(`^${name}$`, "i"): the name is spliced into the pattern      *)
(* unescaped, so "+" is the one-or-more quantifier of the atom before it.  *)
(***************************************************************************)
\* The pattern compiles: every "+" has an atom to repeat.
RegExpValid(p) ==
  \A i \in 1..Len(p) :
    p[i] = "+" => (i > 1 /\ p[i - 1] # "+")

RECURSIVE RegExpMatch(_, _, _, _)
\* p from position i matches s from position j up to its end.
RegExpMatch(p, i, s, j) ==
  IF i > Len(p) THEN j > Len(s)
  ELSE IF i < Len(p) /\ p[i + 1] = "+"
  THEN \E k \in 1..(Len(s) - j + 1) :
         /\ \A m \in j..(j + k - 1) : LowerChar(s[m]) = LowerChar(p[i])
         /\ RegExpMatch(p, i + 2, s, j + k)
  ELSE /\ j <= Len(s)
       /\ LowerChar(s[j]) = LowerChar(p[i])
       /\ RegExpMatch(p, i + 1, s, j + 1)

\* { name: { $regex: /^name$/i } } applied to a stored name.
NameRegexMatches(name, stored) == RegExpMatch(name, 1, stored, 1)

(***************************************************************************)
(* The Subject collection.                                                 *)
(***************************************************************************)
SubjectIds == 1..MaxSubjects

Exists(subs, id) == id \in 1..Len(subs)

\* The code lookup without the upper-casing of the supplied code.
CodeTakenRaw(subs, code, exceptId) ==
  \E i \in 1..Len(subs) : i # exceptId /\ subs[i].code = code

\* Subject.findOne({ code: <code>.toUpperCase(), _id: { $ne: exceptId } })
CodeTaken(subs, code, exceptId) ==
  \E i \in 1..Len(subs) : i # exceptId /\ subs[i].code = toUpperCase(code)

\* Subject.findOne({ name: { $regex: /^name$/i }, _id: { $ne: exceptId } })
NameTaken(subs, name, exceptId) ==
  \E i \in 1..Len(subs) : i # exceptId /\ NameRegexMatches(name, subs[i].name)

\* new Subject(data): the schema upper-cases code and defaults the flags.
NewSubject(data) ==
  [name |-> data.name, code |-> toUpperCase(data.code),
   isActive |-> TRUE, status |-> "active"]

\* A unique index rejects a write whose code, or whose name compared
\* case-insensitively, is held by another document.
IndexRejects(subs, doc, exceptId) ==
  /\ uniqueIndex
  /\ \E i \in 1..Len(subs) :
       /\ i # exceptId
       /\ \/ subs[i].code = doc.code
          \/ EqualsIgnoreCase(subs[i].name, doc.name)

CreateInputs == [name : Names, code : Codes]

Reply(op, status) == [op |-> op, status |-> status]

(***************************************************************************)
(* createSubject(subjectData), run to completion.                          *)
(***************************************************************************)
\* The outcome of the two pre-checks: the error thrown, or "pass".
createSubjectPrecheck(subs, data) ==
  IF CodeTaken(subs, data.code, 0) THEN "Conflict"
  ELSE IF ~RegExpValid(data.name) THEN "SyntaxError"
  ELSE IF NameTaken(subs, data.name, 0) THEN "Conflict"
  ELSE "pass"

createSubject(data) ==
  /\ LET pre == createSubjectPrecheck(subjects, data)
         doc == NewSubject(data)
     IN  IF pre # "pass"
         THEN /\ response' = Reply("createSubject", pre)
              /\ subjects' = subjects
         ELSE IF IndexRejects(subjects, doc, 0)
         THEN /\ response' = Reply("createSubject", "DuplicateKey")
              /\ subjects' = subjects
         ELSE /\ Len(subjects) < MaxSubjects
              /\ response' = Reply("createSubject", "ok")
              /\ subjects' = Append(subjects, doc)
  /\ UNCHANGED <<uniqueIndex, reqs, quizVars, appVars>>

(***************************************************************************)
(* Numbers of the list calls.  page and limit arrive as strings of digits  *)
(* (req.query) or are left out; a JavaScript number is finite, Infinity    *)
(* or NaN.                                                                 *)
(***************************************************************************)
DigitValue(c) ==
  CASE c = "0" -> 0 [] c = "1" -> 1 [] c = "2" -> 2 [] c = "3" -> 3
    [] c = "4" -> 4 [] c = "5" -> 5 [] c = "6" -> 6 [] c = "7" -> 7
    [] c = "8" -> 8 [] c = "9" -> 9

RECURSIVE parseInt(_)
\* parseInt of a string of decimal digits.
parseInt(s) ==
  IF Len(s) = 0 THEN 0
  ELSE 10 * parseInt(SubSeq(s, 1, Len(s) - 1)) + DigitValue(s[Len(s)])

\* The implicit numeric coercion of `page - 1`, `total / limit`, `page < n`.
ToNumber(s) == parseInt(s)

Finite(n) == [kind |-> "number", val |-> n]
Infinity == [kind |-> "Infinity", val |-> 0]
NaN == [kind |-> "NaN", val |-> 0]

\* Math.ceil(total / limit) for total >= 0 and limit >= 0.
CeilDiv(total, limit) ==
  IF limit = 0 THEN (IF total = 0 THEN NaN ELSE Infinity)
  ELSE Finite((total + limit - 1) \div limit)

\* page < Math.ceil(total / limit)
LessThanNum(page, n) ==
  CASE n.kind = "number" -> page < n.val
    [] n.kind = "Infinity" -> TRUE
    [] OTHER -> FALSE

\* cursor.skip(k): the first k documents are dropped.
Skip(seq, k) == SubSeq(seq, k + 1, Len(seq))

\* cursor.limit(n): at most n documents; limit(0) sets no limit.
Limit(seq, n) == IF n = 0 \/ n >= Len(seq) THEN seq ELSE SubSeq(seq, 1, n)

(***************************************************************************)
(* Sorting by name: strings compare by code unit.                          *)
(***************************************************************************)
CharCode(c) ==
  CASE c = "+" -> 43 [] c = "A" -> 65 [] c = "B" -> 66
    [] c = "a" -> 97 [] c = "b" -> 98 [] OTHER -> 0

RECURSIVE StrLess(_, _)
StrLess(s, t) ==
  IF Len(t) = 0 THEN FALSE
  ELSE IF Len(s) = 0 THEN TRUE
  ELSE IF CharCode(Head(s)) # CharCode(Head(t))
  THEN CharCode(Head(s)) < CharCode(Head(t))
  ELSE StrLess(Tail(s), Tail(t))

\* id i comes before id j in sort({ name: dir }); equal names keep the
\* order of insertion.
SortsBefore(subs, i, j, desc) ==
  IF subs[i].name = subs[j].name THEN i < j
  ELSE IF desc THEN StrLess(subs[j].name, subs[i].name)
  ELSE StrLess(subs[i].name, subs[j].name)

RECURSIVE SortIds(_, _, _)
\* The ids of S in sorted order.
SortIds(subs, S, desc) ==
  IF S = {} THEN <<>>
  ELSE LET first == CHOOSE i \in S :
                      \A j \in S \ {i} : SortsBefore(subs, i, j, desc)
       IN  <<first>> \o SortIds(subs, S \ {first}, desc)

(***************************************************************************)
(* getSubjects(query)                                                      *)
(***************************************************************************)
PageValues == { Absent, <<"0">>, <<"1">>, <<"2">> }
LimitValues == { Absent, <<"0">>, <<"1">>, <<"2">> }

Queries ==
  [page : PageValues, limit : LimitValues,
   isActive : {"undefined", "true", "false"}, sortOrder : {"asc", "desc"},
   status : {"undefined", "inactive"}]

\* const { page = 1, limit = 10 } = query, as numbers.
SubjectPage(query) == IF query.page = Absent THEN 1 ELSE ToNumber(query.page)
SubjectLimit(query) ==
  IF query.limit = Absent THEN 10 ELSE ToNumber(query.limit)

\* The documents the filter selects.
\* A list filter without the restriction to status "active".
SubjectFilterAnyStatus(subs, query) ==
  { i \in 1..Len(subs) :
      query.isActive # "undefined"
        => subs[i].isActive = (query.isActive = "true") }

SubjectFilter(subs, query) ==
  { i \in 1..Len(subs) :
      /\ subs[i].status = "active"
      /\ query.isActive # "undefined"
           => subs[i].isActive = (query.isActive = "true") }

getSubjectsResult(subs, query) ==
  LET page == SubjectPage(query)
      limit == SubjectLimit(query)
      skip == (page - 1) * limit
      found == SubjectFilter(subs, query)
      total == Cardinality(found)
      sorted == SortIds(subs, found, query.sortOrder = "desc")
  IN  IF skip < 0 THEN Reply("getSubjects", "MongoError")
      ELSE [op |-> "getSubjects", status |-> "ok",
            items |-> Limit(Skip(sorted, skip), limit),
            pagination |->
              [currentPage |-> page,
               totalPages |-> CeilDiv(total, limit),
               totalCount |-> total,
               hasNextPage |-> LessThanNum(page, CeilDiv(total, limit)),
               hasPrevPage |-> page > 1]]

getSubjects(query) ==
  /\ response' = getSubjectsResult(subjects, query)
  /\ UNCHANGED <<subjectVars, quizVars, appVars>>

(***************************************************************************)
(* getSubjectById(subjectId)                                               *)
(***************************************************************************)
getSubjectById(id) ==
  /\ response' = IF Exists(subjects, id)
                 THEN [op |-> "getSubjectById", status |-> "ok",
                       id |-> id, doc |-> subjects[id]]
                 ELSE Reply("getSubjectById", "NotFound")
  /\ UNCHANGED <<subjectVars, quizVars, appVars>>

(***************************************************************************)
(* updateSubject(subjectId, updateData)                                    *)
(***************************************************************************)
\* A patch: name and code are Absent when left out.
Patches == [name : Names \cup {Absent}, code : Codes \cup {Absent}]

\* The outcome of the existence test and the duplicate lookups.
updateSubjectPrecheck(subs, id, patch) ==
  IF ~Exists(subs, id) THEN "NotFound"
  ELSE IF /\ patch.code # Absent
          /\ patch.code # subs[id].code
          /\ CodeTaken(subs, patch.code, id)
  THEN "Conflict"
  ELSE IF patch.name # Absent /\ patch.name # subs[id].name
  THEN IF ~RegExpValid(patch.name) THEN "SyntaxError"
       ELSE IF NameTaken(subs, patch.name, id) THEN "Conflict"
       ELSE "pass"
  ELSE "pass"

\* findByIdAndUpdate(id, { $set: patch }): the fields of the patch replace
\* the stored ones (code through the schema's upper-casing), the rest stay.
ApplyPatch(doc, patch) ==
  [doc EXCEPT
     !.name = IF patch.name = Absent THEN @ ELSE patch.name,
     !.code = IF patch.code = Absent THEN @ ELSE toUpperCase(patch.code),
     !.status = IF "status" \in DOMAIN patch THEN patch.status ELSE @,
     !.isActive = IF "isActive" \in DOMAIN patch THEN patch.isActive ELSE @]

updateSubject(id, patch) ==
  /\ LET pre == updateSubjectPrecheck(subjects, id, patch)
     IN  IF pre # "pass"
         THEN /\ response' = Reply("updateSubject", pre)
              /\ subjects' = subjects
         ELSE IF IndexRejects(subjects, ApplyPatch(subjects[id], patch), id)
         THEN /\ response' = Reply("updateSubject", "DuplicateKey")
              /\ subjects' = subjects
         ELSE /\ response' = [op |-> "updateSubject", status |-> "ok",
                               id |-> id,
                               doc |-> ApplyPatch(subjects[id], patch)]
              /\ subjects' = [subjects EXCEPT
                                ![id] = ApplyPatch(subjects[id], patch)]
  /\ UNCHANGED <<uniqueIndex, reqs, quizVars, appVars>>

(***************************************************************************)
(* deleteSubject(subjectId)                                                *)
(***************************************************************************)
\* A delete that removes the document (Subject.findByIdAndDelete).
deleteSubjectHard(id) ==
  /\ IF ~Exists(subjects, id)
     THEN /\ response' = Reply("deleteSubject", "NotFound")
          /\ subjects' = subjects
     ELSE /\ response' = Reply("deleteSubject", "ok")
          /\ subjects' = SubSeq(subjects, 1, id - 1)
                           \o SubSeq(subjects, id + 1, Len(subjects))
  /\ UNCHANGED <<uniqueIndex, reqs, quizVars, appVars>>

deleteSubject(id) ==
  /\ IF ~Exists(subjects, id)
     THEN /\ response' = Reply("deleteSubject", "NotFound")
          /\ subjects' = subjects
     ELSE /\ response' = [op |-> "deleteSubject", status |-> "ok",
                          id |-> id]
          /\ subjects' = [subjects EXCEPT ![id].isActive = FALSE,
                                          ![id].status = "inactive"]
  /\ UNCHANGED <<uniqueIndex, reqs, quizVars, appVars>>

(***************************************************************************)
(* searchSubjects(searchTerm, filters)                                     *)
(***************************************************************************)
\* searchTerm.trim()
RECURSIVE trim(_)
trim(s) ==
  IF s = <<>> THEN s
  ELSE IF Head(s) = " " THEN trim(Tail(s))
  ELSE IF s[Len(s)] = " " THEN trim(SubSeq(s, 1, Len(s) - 1))
  ELSE s

RECURSIVE RegExpMatchPrefix(_, _, _, _)
\* p from position i matches s from position j up to some position.
RegExpMatchPrefix(p, i, s, j) ==
  IF i > Len(p) THEN TRUE
  ELSE IF i < Len(p) /\ p[i + 1] = "+"
  THEN \E k \in 1..(Len(s) - j + 1) :
         /\ \A m \in j..(j + k - 1) : LowerChar(s[m]) = LowerChar(p[i])
         /\ RegExpMatchPrefix(p, i + 2, s, j + k)
  ELSE /\ j <= Len(s)
       /\ LowerChar(s[j]) = LowerChar(p[i])
       /\ RegExpMatchPrefix(p, i + 1, s, j + 1)

\* { $regex: term, $options: "i" } applied to a stored string: the pattern
\* matches somewhere in it.
RegexFinds(term, stored) ==
  \E j \in 1..(Len(stored) + 1) : RegExpMatchPrefix(term, 1, stored, j)

\* The query of searchSubjects: the term found in name or code, isActive
\* true, status "active", and the additional filters.  The additional
\* filters only add conditions to the query; filters is the set of documents
\* that satisfy them.
SearchFilter(subs, term, filters) ==
  { i \in 1..Len(subs) :
      /\ RegexFinds(term, subs[i].name) \/ RegexFinds(term, subs[i].code)
      /\ subs[i].isActive
      /\ subs[i].status = "active"
      /\ i \in filters }

searchSubjectsResult(subs, searchTerm, filters) ==
  IF searchTerm = <<>> \/ Len(trim(searchTerm)) < 2
  THEN Reply("searchSubjects", "BadRequest")
  ELSE IF ~RegExpValid(trim(searchTerm))
  THEN Reply("searchSubjects", "MongoError")
  ELSE LET sorted == SortIds(subs, SearchFilter(subs, trim(searchTerm),
                                                filters), FALSE)
       IN  [op |-> "searchSubjects", status |-> "ok",
            items |-> IF Len(sorted) > 20 THEN SubSeq(sorted, 1, 20)
                      ELSE sorted]

searchSubjects(searchTerm, filters) ==
  /\ response' = searchSubjectsResult(subjects, searchTerm, filters)
  /\ UNCHANGED <<subjectVars, quizVars, appVars>>

(***************************************************************************)
(* createSubject with its three awaits as separate steps, so that calls    *)
(* interleave: findOne by code, findOne by name, save.  seenCode and       *)
(* seenName record how many documents were stored when each lookup ran,    *)
(* savedAs the _id the save produced.                                      *)
(***************************************************************************)
ReqIds == 1..MaxReqs

IdleReq ==
  [pc |-> "idle", name |-> Absent, code |-> Absent,
   seenCode |-> 0, seenName |-> 0, savedAs |-> 0]

IdleReqs == [r \in ReqIds |-> IdleReq]

RaceInputs == CreateInputs

raceStart(r, data) ==
  /\ reqs[r].pc = "idle"
  /\ reqs' = [reqs EXCEPT ![r].pc = "checkCode",
                          ![r].name = data.name, ![r].code = data.code]
  /\ UNCHANGED <<subjects, uniqueIndex, response, quizVars, appVars>>

raceCheckCode(r) ==
  /\ reqs[r].pc = "checkCode"
  /\ reqs' = [reqs EXCEPT
       ![r].seenCode = Len(subjects),
       ![r].pc = IF CodeTaken(subjects, reqs[r].code, 0) THEN "Conflict"
                 ELSE IF ~RegExpValid(reqs[r].name) THEN "SyntaxError"
                 ELSE "checkName"]
  /\ UNCHANGED <<subjects, uniqueIndex, response, quizVars, appVars>>

raceCheckName(r) ==
  /\ reqs[r].pc = "checkName"
  /\ reqs' = [reqs EXCEPT
       ![r].seenName = Len(subjects),
       ![r].pc = IF NameTaken(subjects, reqs[r].name, 0) THEN "Conflict"
                 ELSE "save"]
  /\ UNCHANGED <<subjects, uniqueIndex, response, quizVars, appVars>>

raceSave(r) ==
  /\ reqs[r].pc = "save"
  /\ LET doc == NewSubject([name |-> reqs[r].name, code |-> reqs[r].code])
     IN  IF IndexRejects(subjects, doc, 0)
         THEN /\ reqs' = [reqs EXCEPT ![r].pc = "DuplicateKey"]
              /\ subjects' = subjects
         ELSE /\ reqs' = [reqs EXCEPT ![r].pc = "saved",
                                      ![r].savedAs = Len(subjects) + 1]
              /\ subjects' = Append(subjects, doc)
  /\ UNCHANGED <<uniqueIndex, response, quizVars, appVars>>

RaceNext ==
  \/ \E r \in ReqIds, data \in RaceInputs : raceStart(r, data)
  \/ \E r \in ReqIds : raceCheckCode(r)
  \/ \E r \in ReqIds : raceCheckName(r)
  \/ \E r \in ReqIds : raceSave(r)

(***************************************************************************)
(* The quiz service (QuizService).  An optional field is a sequence of     *)
(* length at most one: <<>> when left out, <<v>> when supplied.  A status  *)
(* is the statusCode of the ApiResponse returned or the ApiError thrown.   *)
(***************************************************************************)
QuizIds == 1..MaxQuizzes

Some(v) == <<v>>
None == <<>>

QuizExists(id) == id \in DOMAIN quizzes

\* QuizResult.find({ quizId }): the positions of the quiz's results.
ResultsOf(id) == { i \in 1..Len(results) : results[i].quizId = id }

\* The analytics of a quiz no recomputation has written yet.
NoAnalytics ==
  [totalAttempts |-> 0, averageScore |-> 0, averageTime |-> 0,
   completionRate |-> 0]

\* `if (data.questionIds && data.totalQuestions)`: an array is truthy even
\* when empty, the number 0 is not; a differing count is overwritten.
NormalizeTotalQuestions(data) ==
  IF /\ data.questionIds # None
     /\ data.totalQuestions # None
     /\ data.totalQuestions[1] # 0
     /\ Len(data.questionIds[1]) # data.totalQuestions[1]
  THEN [data EXCEPT !.totalQuestions = Some(Len(data.questionIds[1]))]
  ELSE data

\* The retake policy of a quiz created without one.
DefaultRetakePolicy == [maxAttempts |-> 1, cooldown |-> 1]

\* new Quiz(quizData): the supplied fields, the schema's defaults for the
\* rest.
NewQuiz(data) ==
  [isActive |-> TRUE,
   questionIds |-> IF data.questionIds = None THEN <<>>
                   ELSE data.questionIds[1],
   totalQuestions |-> data.totalQuestions,
   totalPoints |-> data.totalPoints,
   premiumOnly |-> data.premiumOnly,
   analytics |-> NoAnalytics,
   subjectId |-> IF "subjectId" \in DOMAIN data THEN data.subjectId ELSE 1,
   retakePolicy |-> IF "retakePolicy" \in DOMAIN data THEN data.retakePolicy
                    ELSE DefaultRetakePolicy,
   updatedAt |-> now]

createQuiz(quizData) ==
  /\ nextQuizId <= MaxQuizzes
  /\ LET doc == NewQuiz(NormalizeTotalQuestions(quizData))
     IN  /\ quizzes' = (nextQuizId :> doc) @@ quizzes
         /\ response' = [op |-> "createQuiz", status |-> "201",
                         message |-> "Quiz created successfully",
                         id |-> nextQuizId, data |-> doc]
  /\ nextQuizId' = nextQuizId + 1
  /\ UNCHANGED <<appVars, subjectVars, results, now>>

getQuizById(id) ==
  /\ response' = IF QuizExists(id)
                 THEN [op |-> "getQuizById", status |-> "200",
                       message |-> "Quiz retrieved successfully",
                       id |-> id, data |-> quizzes[id]]
                 ELSE [op |-> "getQuizById", status |-> "404",
                       message |-> "Quiz not found", id |-> id]
  /\ UNCHANGED <<subjectVars, quizVars, appVars>>

\* findByIdAndUpdate(id, { ...updateData, updatedAt: new Date() }): the
\* supplied fields replace the stored ones.
ApplyQuizPatch(doc, patch) ==
  [doc EXCEPT
     !.questionIds = IF patch.questionIds = None THEN @
                     ELSE patch.questionIds[1],
     !.totalQuestions = IF patch.totalQuestions = None THEN @
                        ELSE patch.totalQuestions,
     !.premiumOnly = IF patch.premiumOnly = None THEN @
                     ELSE patch.premiumOnly[1],
     !.isActive = IF patch.isActive = None THEN @ ELSE patch.isActive[1],
     !.analytics = IF "analytics" \in DOMAIN patch THEN patch.analytics
                   ELSE @,
     !.updatedAt = now]

updateQuiz(id, updateData) ==
  /\ IF QuizExists(id)
     THEN LET doc == ApplyQuizPatch(quizzes[id],
                                    NormalizeTotalQuestions(updateData))
          IN  /\ quizzes' = [quizzes EXCEPT ![id] = doc]
              /\ response' = [op |-> "updateQuiz", status |-> "200",
                              message |-> "Quiz updated successfully",
                              id |-> id, data |-> doc]
     ELSE /\ quizzes' = quizzes
          /\ response' = [op |-> "updateQuiz", status |-> "404",
                          message |-> "Quiz not found", id |-> id]
  /\ UNCHANGED <<appVars, subjectVars, nextQuizId, results, now>>

\* quizzes without the document of id (Quiz.findByIdAndDelete).
RemoveQuiz(id) == [i \in (DOMAIN quizzes) \ {id} |-> quizzes[i]]

\* A delete that never removes the document.
deleteQuizAlwaysSoft(id) ==
  /\ IF ~QuizExists(id)
     THEN /\ quizzes' = quizzes
          /\ response' = [op |-> "deleteQuiz", status |-> "404",
                          message |-> "Quiz not found", id |-> id]
     ELSE /\ quizzes' = [quizzes EXCEPT ![id].isActive = FALSE]
          /\ response' =
               [op |-> "deleteQuiz", status |-> "200", id |-> id,
                message |->
                  "Quiz deactivated successfully (has existing results)"]
  /\ UNCHANGED <<appVars, subjectVars, nextQuizId, results, now>>

deleteQuiz(id) ==
  /\ IF ~QuizExists(id)
     THEN /\ quizzes' = quizzes
          /\ response' = [op |-> "deleteQuiz", status |-> "404",
                          message |-> "Quiz not found", id |-> id]
     ELSE IF ResultsOf(id) # {}
     THEN /\ quizzes' = [quizzes EXCEPT ![id].isActive = FALSE]
          /\ response' =
               [op |-> "deleteQuiz", status |-> "200", id |-> id,
                message |->
                  "Quiz deactivated successfully (has existing results)"]
     ELSE /\ quizzes' = RemoveQuiz(id)
          /\ response' = [op |-> "deleteQuiz", status |-> "200", id |-> id,
                          message |-> "Quiz deleted successfully"]
  /\ UNCHANGED <<appVars, subjectVars, nextQuizId, results, now>>

\* A user's attempt at a stored quiz is recorded (the quiz-result service).
insertResult(quizId, userId, score, timeTaken) ==
  /\ Len(results) < MaxResults
  /\ QuizExists(quizId)
  /\ results' = Append(results,
                       [quizId |-> quizId, userId |-> userId,
                        score |-> score, timeTaken |-> timeTaken,
                        createdAt |-> now])
  /\ response' = [op |-> "insertResult", status |-> "201"]
  /\ UNCHANGED <<appVars, subjectVars, quizzes, nextQuizId, now>>

\* Time passes.
Tick ==
  /\ now < MaxTime
  /\ now' = now + 1
  /\ UNCHANGED <<appVars, subjectVars, response, quizzes, nextQuizId, results>>

(***************************************************************************)
(* Analytics and statistics over the results of a quiz.  Scores, times and *)
(* points are integers, and the code's floating-point quotients and        *)
(* products by 0.2 are computed exactly, as fractions.                     *)
(***************************************************************************)
RECURSIVE SumOf(_, _)
\* results.reduce((sum, r) => sum + r[field], 0) over the positions S.
SumOf(field, S) ==
  IF S = {} THEN 0
  ELSE LET i == CHOOSE j \in S : TRUE
       IN  results[i][field] + SumOf(field, S \ {i})

\* Math.floor(num / den) in place of Math.round.
MathFloor(num, den) == num \div den

\* Math.round(num / den) for num >= 0, den > 0: halves round up.
MathRound(num, den) == (2 * num + den) \div (2 * den)

\* results.filter((result) => result.score > 0)
CompletedOf(S) == { i \in S : results[i].score > 0 }

computeAnalytics(S) ==
  [totalAttempts |-> Cardinality(S),
   averageScore |-> MathRound(SumOf("score", S), Cardinality(S)),
   averageTime |-> MathRound(SumOf("timeTaken", S), Cardinality(S)),
   completionRate |->
     MathRound(100 * Cardinality(CompletedOf(S)), Cardinality(S))]

\* A recomputation without the early return: a quiz without results gets
\* the zero snapshot and the call answers like any other.
updateQuizAnalyticsAlways(id) ==
  /\ LET analytics == IF ResultsOf(id) = {} THEN NoAnalytics
                      ELSE computeAnalytics(ResultsOf(id))
     IN  /\ quizzes' = IF QuizExists(id)
                       THEN [quizzes EXCEPT ![id].analytics = analytics]
                       ELSE quizzes
         /\ response' = [op |-> "updateQuizAnalytics", status |-> "200",
                         message |-> "Quiz analytics updated successfully",
                         id |-> id, data |-> analytics]
  /\ UNCHANGED <<appVars, subjectVars, nextQuizId, results, now>>

updateQuizAnalytics(id) ==
  /\ IF ResultsOf(id) = {}
     THEN /\ quizzes' = quizzes
          /\ response' = [op |-> "updateQuizAnalytics",
                          status |-> "undefined", id |-> id]
     ELSE /\ quizzes' =
               IF QuizExists(id)
               THEN [quizzes EXCEPT
                       ![id].analytics = computeAnalytics(ResultsOf(id))]
               ELSE quizzes
          /\ response' = [op |-> "updateQuizAnalytics", status |-> "200",
                          message |-> "Quiz analytics updated successfully",
                          id |-> id,
                          data |-> computeAnalytics(ResultsOf(id))]
  /\ UNCHANGED <<appVars, subjectVars, nextQuizId, results, now>>

BucketLabels == << "0-20%", "21-40%", "41-60%", "61-80%", "81-100%" >>

\* The range test with the bounds swapped: min <= score < max.
calculateScoreDistributionUpper(S, totalPoints) ==
  [k \in 1..5 |->
     [label |-> BucketLabels[k],
      count |-> Cardinality({ i \in S :
                  /\ 5 * results[i].score >= (k - 1) * totalPoints
                  /\ 5 * results[i].score < k * totalPoints })]]

\* Range k runs from totalPoints * 0.2 * (k - 1) to totalPoints * 0.2 * k;
\* a result is counted when min < score <= max.
\* Ranges that include both of their ends.
calculateScoreDistributionClosed(S, totalPoints) ==
  [k \in 1..5 |->
     [label |-> BucketLabels[k],
      count |-> Cardinality({ i \in S :
                  /\ 5 * results[i].score >= (k - 1) * totalPoints
                  /\ 5 * results[i].score <= k * totalPoints })]]

calculateScoreDistribution(S, totalPoints) ==
  [k \in 1..5 |->
     [label |-> BucketLabels[k],
      count |-> Cardinality({ i \in S :
                  /\ 5 * results[i].score > (k - 1) * totalPoints
                  /\ 5 * results[i].score <= k * totalPoints })]]

\* Math.max(...results.map((r) => r.score)) and Math.min.
MaxScore(S) == CHOOSE m \in {results[i].score : i \in S} :
                 \A i \in S : results[i].score <= m
MinScore(S) == CHOOSE m \in {results[i].score : i \in S} :
                 \A i \in S : results[i].score >= m

quizStatistics(S, totalPoints) ==
  [totalAttempts |-> Cardinality(S),
   averageScore |-> IF S # {} THEN MathRound(SumOf("score", S), Cardinality(S))
                    ELSE 0,
   averageTime |-> IF S # {}
                   THEN MathRound(SumOf("timeTaken", S), Cardinality(S))
                   ELSE 0,
   highestScore |-> IF S # {} THEN MaxScore(S) ELSE 0,
   lowestScore |-> IF S # {} THEN MinScore(S) ELSE 0,
   passRate |-> IF S # {}
                THEN MathRound(
                       100 * Cardinality({ i \in S :
                               5 * results[i].score >= 3 * totalPoints }),
                       Cardinality(S))
                ELSE 0,
   scoreDistribution |-> calculateScoreDistribution(S, totalPoints)]

getQuizStatistics(id) ==
  /\ response' =
       IF QuizExists(id)
       THEN [op |-> "getQuizStatistics", status |-> "200",
             message |-> "Quiz statistics retrieved successfully",
             id |-> id,
             data |-> quizStatistics(ResultsOf(id), quizzes[id].totalPoints)]
       ELSE [op |-> "getQuizStatistics", status |-> "404",
             message |-> "Quiz not found", id |-> id]
  /\ UNCHANGED <<subjectVars, quizVars, appVars>>

(***************************************************************************)
(* bulkUpdateQuizzes(quizIds, updateData)                                  *)
(***************************************************************************)
\* Quiz.updateMany({ _id: { $in: ids } }, { ...updateData, updatedAt: new
\* Date() }): a document is matched when its id is in ids, and modified when
\* the update changes one of its fields.
bulkUpdateQuizzes(ids, updateData) ==
  /\ LET matched == ids \cap DOMAIN quizzes
         modified == { id \in matched :
                         ApplyQuizPatch(quizzes[id], updateData) # quizzes[id] }
     IN  /\ quizzes' = [id \in DOMAIN quizzes |->
                          IF id \in matched
                          THEN ApplyQuizPatch(quizzes[id], updateData)
                          ELSE quizzes[id]]
         /\ response' = [op |-> "bulkUpdateQuizzes", status |-> "200",
                         message |-> "Bulk update completed successfully",
                         data |-> [matchedCount |-> Cardinality(matched),
                                   modifiedCount |-> Cardinality(modified)]]
  /\ UNCHANGED <<appVars, subjectVars, nextQuizId, results, now>>

(***************************************************************************)
(* canUserTakeQuiz(quizId, userId)                                         *)
(***************************************************************************)
UserIds == { 1, 2 }

\* quiz.canUserRetake(userAttempts)
canUserRetake(quiz, userAttempts) ==
  userAttempts < quiz.retakePolicy.maxAttempts

\* quiz.getNextRetakeTime(lastAttempt.createdAt)
getNextRetakeTime(quiz, lastAttemptAt) ==
  lastAttemptAt + quiz.retakePolicy.cooldown

\* a >= b
NotEarlierThan(a, b) == a >= b

\* nextRetakeTime > new Date()
LaterThan(a, b) == a > b

\* QuizResult.countDocuments / find({ quizId, userId })
AttemptsOf(quizId, userId) ==
  { i \in ResultsOf(quizId) : results[i].userId = userId }

\* findOne(...).sort({ createdAt: -1 }).select("createdAt"): the createdAt
\* of the most recent result.
LastAttemptAt(S) ==
  CHOOSE t \in { results[i].createdAt : i \in S } :
    \A i \in S : results[i].createdAt <= t

canUserTakeQuizResult(quizId, userId) ==
  IF ~QuizExists(quizId)
  THEN [op |-> "canUserTakeQuiz", status |-> "404", id |-> quizId,
        message |-> "Quiz not found"]
  ELSE
    LET quiz == quizzes[quizId]
        mine == AttemptsOf(quizId, userId)
        userAttempts == Cardinality(mine)
    IN  IF ~canUserRetake(quiz, userAttempts)
        THEN IF mine = {}
             \* lastAttempt is null: reading its createdAt throws a
             \* TypeError, which the catch wraps.
             THEN [op |-> "canUserTakeQuiz", status |-> "500",
                   id |-> quizId,
                   message |-> "Failed to check quiz eligibility"]
             ELSE LET nextRetakeTime ==
                        getNextRetakeTime(quiz, LastAttemptAt(mine))
                  IN  [op |-> "canUserTakeQuiz", status |-> "200",
                       id |-> quizId,
                       data |->
                         [canTake |-> FALSE,
                          reason |-> "Maximum attempts reached",
                          attemptsUsed |-> userAttempts,
                          maxAttempts |-> quiz.retakePolicy.maxAttempts,
                          nextRetakeTime |->
                            IF LaterThan(nextRetakeTime, now)
                            THEN Some(nextRetakeTime) ELSE None]]
        ELSE [op |-> "canUserTakeQuiz", status |-> "200", id |-> quizId,
              data |-> [canTake |-> TRUE,
                        attemptsUsed |-> userAttempts,
                        maxAttempts |-> quiz.retakePolicy.maxAttempts]]

canUserTakeQuiz(quizId, userId) ==
  /\ response' = canUserTakeQuizResult(quizId, userId)
  /\ UNCHANGED <<subjectVars, quizVars, appVars>>

(***************************************************************************)
(* getAllQuizzes(filters, options)                                         *)
(***************************************************************************)
\* const { page = 1, limit = 10 } = options, as numbers.
QuizPage(options) == IF options.page = Absent THEN 1 ELSE ToNumber(options.page)
QuizLimit(options) ==
  IF options.limit = Absent THEN 10 ELSE ToNumber(options.limit)

\* The query: isActive (true unless given), premiumOnly when given, then
\* Object.assign(query, filters), which copies every key of filters:
\* totalPoints stands for a document field that is no filter option.
QuizQuery(filters, options) ==
  LET base == [isActive |-> IF options.isActive = None THEN Some(TRUE)
                            ELSE options.isActive,
               premiumOnly |-> options.premiumOnly]
  IN  [isActive |-> IF filters.isActive = None THEN base.isActive
                    ELSE filters.isActive,
       premiumOnly |-> IF filters.premiumOnly = None THEN base.premiumOnly
                       ELSE filters.premiumOnly,
       totalPoints |-> filters.totalPoints,
       subjectId |-> IF "subjectId" \in DOMAIN filters THEN filters.subjectId
                     ELSE IF "subjectId" \in DOMAIN options
                     THEN options.subjectId
                     ELSE None]

\* Quiz.find(query) and Quiz.countDocuments(query): the matching ids.
QuizFilter(query) ==
  { id \in DOMAIN quizzes :
      /\ query.isActive # None => quizzes[id].isActive = query.isActive[1]
      /\ query.premiumOnly # None
           => quizzes[id].premiumOnly = query.premiumOnly[1]
      /\ query.totalPoints # None
           => quizzes[id].totalPoints = query.totalPoints[1]
      /\ query.subjectId # None
           => quizzes[id].subjectId = query.subjectId[1] }

RECURSIVE SortQuizIds(_, _)
\* sort({ createdAt: dir }): quizzes in the order of their creation, which
\* is the order of their ids.
SortQuizIds(S, desc) ==
  IF S = {} THEN <<>>
  ELSE LET first == CHOOSE i \in S :
                      \A j \in S : IF desc THEN j <= i ELSE i <= j
       IN  <<first>> \o SortQuizIds(S \ {first}, desc)

getAllQuizzesResult(filters, options) ==
  LET page == QuizPage(options)
      limit == QuizLimit(options)
      skip == (page - 1) * limit
      found == QuizFilter(QuizQuery(filters, options))
      total == Cardinality(found)
      sorted == SortQuizIds(found, options.sortOrder = "desc")
  IN  IF skip < 0
      THEN [op |-> "getAllQuizzes", status |-> "500",
            message |-> "Failed to retrieve quizzes"]
      ELSE [op |-> "getAllQuizzes", status |-> "200",
            message |-> "Quizzes retrieved successfully",
            items |-> Limit(Skip(sorted, skip), limit),
            pagination |->
              [currentPage |-> page,
               totalPages |-> CeilDiv(total, limit),
               totalItems |-> total,
               itemsPerPage |-> limit,
               hasNext |-> LessThanNum(page, CeilDiv(total, limit)),
               hasPrev |-> page > 1]]

getAllQuizzes(filters, options) ==
  /\ response' = getAllQuizzesResult(filters, options)
  /\ UNCHANGED <<subjectVars, quizVars, appVars>>

(***************************************************************************)
(* The catch blocks of the quiz service, and getQuizzesBySubject.          *)
(***************************************************************************)
\* What a persistence call throws: a mongoose ValidationError or any
\* other error (CastError, a lost connection, a TypeError).
Thrown == { "ValidationError", "Error" }

\* A handler that turns everything it catches into 500.
CaughtAsInternal(op, error) == "500"

\* The status of the ApiError the catch block of op throws for an error
\* that is no ApiError.
Caught(op, error) ==
  IF op \in { "createQuiz", "updateQuiz" } /\ error = "ValidationError"
  THEN "400"
  ELSE "500"

\* The message of the 500 of each operation.
FailureMessage(op) ==
  CASE op = "createQuiz" -> "Failed to create quiz"
    [] op = "getAllQuizzes" -> "Failed to retrieve quizzes"
    [] op = "getQuizById" -> "Failed to retrieve quiz"
    [] op = "updateQuiz" -> "Failed to update quiz"
    [] op = "deleteQuiz" -> "Failed to delete quiz"
    [] op = "getQuizzesBySubject" -> "Failed to retrieve quizzes by subject"
    [] op = "canUserTakeQuiz" -> "Failed to check quiz eligibility"
    [] op = "updateQuizAnalytics" -> "Failed to update quiz analytics"
    [] op = "bulkUpdateQuizzes" -> "Failed to bulk update quizzes"
    [] op = "getQuizStatistics" -> "Failed to retrieve quiz statistics"

QuizOps ==
  { "createQuiz", "getAllQuizzes", "getQuizById", "updateQuiz",
    "deleteQuiz", "getQuizzesBySubject", "canUserTakeQuiz",
    "updateQuizAnalytics", "bulkUpdateQuizzes", "getQuizStatistics" }

\* The first persistence call of operation op throws: nothing is written
\* and the catch block answers.
persistenceFails(op, error) ==
  /\ response' = [op |-> op, status |-> Caught(op, error),
                  message |-> IF Caught(op, error) = "400"
                              THEN "Validation failed"
                              ELSE FailureMessage(op),
                  thrown |-> error]
  /\ UNCHANGED <<subjectVars, quizVars, appVars>>

\* filters = { subjectId, isActive: true }; the answer of getAllQuizzes is
\* returned as it is, and whatever it throws is wrapped into a 500.
getQuizzesBySubject(subjectId, options) ==
  /\ LET filters == [isActive |-> Some(TRUE), premiumOnly |-> None,
                     totalPoints |-> None, subjectId |-> Some(subjectId)]
         answer == getAllQuizzesResult(filters, options)
     IN  response' =
           IF answer.status = "200" THEN answer
           ELSE [op |-> "getQuizzesBySubject", status |-> "500",
                 message |-> FailureMessage("getQuizzesBySubject")]
  /\ UNCHANGED <<subjectVars, quizVars, appVars>>

(***************************************************************************)
(* The question router: every request goes through the rate limiter and    *)
(* the authentication middleware, then through the handlers of its route.  *)
(***************************************************************************)
MaxCalls == 1

Roles == { "student", "teacher", "admin" }

Routes ==
  { "GET /:id", "GET /", "POST /", "PUT /:id", "DELETE /:id",
    "POST /:id/verify" }

\* The handlers of a route with the validation put before the role check.
HandlersValidateFirst(route) ==
  CASE route = "GET /:id" -> <<"controller">>
    [] route = "GET /" -> <<"validateMiddleware", "controller">>
    [] route = "POST /" ->
         <<"validateMiddleware", "roleMiddleware", "controller">>
    [] route = "PUT /:id" ->
         <<"validateMiddleware", "roleMiddleware", "controller">>
    [] route = "DELETE /:id" -> <<"roleMiddleware", "controller">>
    [] route = "POST /:id/verify" -> <<"roleMiddleware", "controller">>

\* The handlers a route registers, in order.
Handlers(route) ==
  CASE route = "GET /:id" -> <<"controller">>
    [] route = "GET /" -> <<"validateMiddleware", "controller">>
    [] route = "POST /" ->
         <<"roleMiddleware", "validateMiddleware", "controller">>
    [] route = "PUT /:id" ->
         <<"roleMiddleware", "validateMiddleware", "controller">>
    [] route = "DELETE /:id" -> <<"roleMiddleware", "controller">>
    [] route = "POST /:id/verify" -> <<"roleMiddleware", "controller">>

\* router.use(apiLimiter); router.use(authMiddleware); then the route.
Chain(route) == <<"apiLimiter", "authMiddleware">> \o Handlers(route)

\* Role lists that let the teacher through on every restricted route.
AllowedRolesTeacher(route) ==
  CASE route \in { "POST /", "PUT /:id" } -> { "teacher", "admin" }
    [] route \in { "DELETE /:id", "POST /:id/verify" } ->
         { "teacher", "admin" }
    [] OTHER -> {}

\* The roles a route hands to roleMiddleware.
AllowedRoles(route) ==
  CASE route \in { "POST /", "PUT /:id" } -> { "teacher", "admin" }
    [] route \in { "DELETE /:id", "POST /:id/verify" } -> { "admin" }
    [] OTHER -> {}

\* The question service operation the controller of a route invokes.
ServiceOp(route) ==
  CASE route = "GET /:id" -> "getQuestionById"
    [] route = "GET /" -> "getQuestions"
    [] route = "POST /" -> "createQuestion"
    [] route = "PUT /:id" -> "updateQuestion"
    [] route = "DELETE /:id" -> "deleteQuestion"
    [] route = "POST /:id/verify" -> "verifyQuestion"

\* res.status(StatusCodes.CREATED) for createQuestion, OK for the others.
SuccessStatus(route) == IF route = "POST /" THEN "201" ELSE "200"

IdleRequest ==
  [route |-> "none", token |-> FALSE, role |-> "none", dataValid |-> FALSE,
   limited |-> FALSE, pc |-> 0, passed |-> {}, user |-> "none",
   status |-> "none"]

\* The requests a client can send: with a valid token of some role or
\* without one, with data that satisfies the route's schema or not, within
\* the rate limit or beyond it.
Requests ==
  { [route |-> r, token |-> t[1], role |-> t[2], dataValid |-> v,
     limited |-> l, pc |-> 1, passed |-> {}, user |-> "none",
     status |-> "pending"] :
      r \in Routes,
      t \in ({ <<FALSE, "none">> } \cup { <<TRUE, ro>> : ro \in Roles }),
      v \in BOOLEAN, l \in BOOLEAN }

\* The log keeps the latest MaxCalls service calls.
Log(log, call) ==
  IF Len(log) < MaxCalls THEN Append(log, call)
  ELSE Append(Tail(log), call)

AtStage(name) ==
  /\ request.status = "pending"
  /\ Chain(request.route)[request.pc] = name

\* next()
Passes(name) ==
  [request EXCEPT !.pc = @ + 1, !.passed = @ \cup {name}]

\* The middleware answers and the chain stops.
Rejects(status) == [request EXCEPT !.status = status]

\* A request arrives when the previous one has been answered.
receive(req) ==
  /\ request.status # "pending"
  /\ request' = req
  /\ UNCHANGED <<subjectVars, quizVars, response, calls, lessons, proc, del>>

apiLimiter ==
  /\ AtStage("apiLimiter")
  /\ request' = IF request.limited THEN Rejects("429")
                ELSE Passes("apiLimiter")
  /\ UNCHANGED <<subjectVars, quizVars, response, calls, lessons, proc, del>>

\* Without a valid token the request is answered 401; with one, req.user
\* is set from the token.
authMiddleware ==
  /\ AtStage("authMiddleware")
  /\ request' = IF ~request.token THEN Rejects("401")
                ELSE [Passes("authMiddleware") EXCEPT !.user = request.role]
  /\ UNCHANGED <<subjectVars, quizVars, response, calls, lessons, proc, del>>

\* roleMiddleware(roles): 403 unless req.user.role is one of roles.
roleMiddleware ==
  /\ AtStage("roleMiddleware")
  /\ request' = IF request.user \notin AllowedRoles(request.route)
                THEN Rejects("403")
                ELSE Passes("roleMiddleware")
  /\ UNCHANGED <<subjectVars, quizVars, response, calls, lessons, proc, del>>

\* validateMiddleware(schema): 400 unless the request satisfies the schema.
validateMiddleware ==
  /\ AtStage("validateMiddleware")
  /\ request' = IF ~request.dataValid THEN Rejects("400")
                ELSE Passes("validateMiddleware")
  /\ UNCHANGED <<subjectVars, quizVars, response, calls, lessons, proc, del>>

\* The controller invokes its one service operation and answers with the
\* result, or rethrows what the service threw.
questionController ==
  /\ AtStage("controller")
  /\ calls' = Log(calls, [service |-> "questionService",
                          op |-> ServiceOp(request.route),
                          user |-> request.user,
                          passed |-> request.passed])
  /\ \E ok \in BOOLEAN :
       request' = Rejects(IF ok THEN SuccessStatus(request.route)
                          ELSE "error")
  /\ UNCHANGED <<subjectVars, quizVars, response, lessons, proc, del>>

RouteNext ==
  \/ \E req \in Requests : receive(req)
  \/ apiLimiter
  \/ authMiddleware
  \/ roleMiddleware
  \/ validateMiddleware
  \/ questionController

(***************************************************************************)
(* PhysicsLessonController: createLesson, updateLesson, deleteLesson.      *)
(***************************************************************************)
MaxLessons == 2

LessonIds == 1..MaxLessons

\* req.user of the authenticated actor.
Users ==
  { [id |-> 1, role |-> "teacher"], [id |-> 2, role |-> "teacher"],
    [id |-> 3, role |-> "admin"] }

\* Lesson.findById(id)
LessonExists(id) == id \in DOMAIN lessons

\* No ownership check at all.
MayModifyAnyone(lesson, user) == TRUE

\* The negation of `createdBy.toString() !== req.user.id &&
\* req.user.role !== "admin"`.
MayModify(lesson, user) ==
  lesson.createdBy = user.id \/ user.role = "admin"

LessonCall(op, id, user) ==
  [service |-> "physicsLessonService", op |-> op, id |-> id,
   actor |-> user.id, role |-> user.role]

LessonReply(op, id, status) == [op |-> op, id |-> id, status |-> status]

\* The controller hands the body and req.user.id to the service, which
\* stores the lesson with that user as its creator.
createLesson(user) ==
  /\ \E id \in LessonIds :
       /\ ~LessonExists(id)
       /\ \A j \in LessonIds : j < id => LessonExists(j)
       /\ lessons' = [j \in DOMAIN lessons \cup {id} |->
                        IF j = id THEN [createdBy |-> user.id]
                        ELSE lessons[j]]
       /\ calls' = Log(calls, LessonCall("createLesson", id, user))
       /\ response' = LessonReply("createLesson", id, "201")
  /\ UNCHANGED <<subjectVars, quizVars, request, proc, del>>

updateLesson(id, user) ==
  /\ IF ~LessonExists(id)
     THEN /\ response' = LessonReply("updateLesson", id, "404")
          /\ calls' = calls
     ELSE IF ~MayModify(lessons[id], user)
     THEN /\ response' = LessonReply("updateLesson", id, "403")
          /\ calls' = calls
     ELSE /\ calls' = Log(calls, LessonCall("updateLesson", id, user))
          /\ response' = LessonReply("updateLesson", id, "200")
  /\ UNCHANGED <<subjectVars, quizVars, request, lessons, proc, del>>

\* The service removes the lesson, or keeps the document and marks it.
deleteLesson(id, user) ==
  /\ IF ~LessonExists(id)
     THEN /\ response' = LessonReply("deleteLesson", id, "404")
          /\ UNCHANGED <<calls, lessons>>
     ELSE IF ~MayModify(lessons[id], user)
     THEN /\ response' = LessonReply("deleteLesson", id, "403")
          /\ UNCHANGED <<calls, lessons>>
     ELSE /\ calls' = Log(calls, LessonCall("deleteLesson", id, user))
          /\ response' = LessonReply("deleteLesson", id, "200")
          /\ \/ lessons' = [j \in DOMAIN lessons \ {id} |-> lessons[j]]
             \/ lessons' = lessons
  /\ UNCHANGED <<subjectVars, quizVars, request, proc, del>>

LessonNext ==
  \/ \E user \in Users : createLesson(user)
  \/ \E id \in LessonIds, user \in Users : updateLesson(id, user)
  \/ \E id \in LessonIds, user \in Users : deleteLesson(id, user)

(***************************************************************************)
(* The server process: server.js runs from top to bottom when the module   *)
(* is loaded; promise callbacks and signal handlers run after that.        *)
(***************************************************************************)
MaxServed == 2

\* A variable of process.env: not set, set to the empty string, or set.
EnvValues == { "unset", "", "value" }

NodeEnvs == { "unset", "test", "production" }

Envs == [NODE_ENV : NodeEnvs, MONGO_URI : EnvValues, JWT_SECRET : EnvValues]

\* !process.env[envVar]
Missing(value) == value \in { "unset", "" }

\* requiredEnvVars.filter((envVar) => !process.env[envVar])
missingEnvVars(env) ==
  { v \in { "MONGO_URI", "JWT_SECRET" } : Missing(env[v]) }

\* The process before `node server.js`.
NotStarted ==
  [pc |-> "off",
   env |-> [NODE_ENV |-> "unset", MONGO_URI |-> "unset",
            JWT_SECRET |-> "unset"],
   db |-> "none", listening |-> FALSE, exitCode |-> "none", served |-> 0,
   inflight |-> 0]

Booting(env) ==
  [pc |-> "envCheck", env |-> env, db |-> "none", listening |-> FALSE,
   exitCode |-> "none", served |-> 0, inflight |-> 0]

\* process.exit(code): the process ends with whatever requests it had
\* accepted and not yet answered.
Exit(code) ==
  [proc EXCEPT !.pc = "exited", !.exitCode = code, !.listening = FALSE]

\* node server.js
start(env) ==
  /\ proc.pc = "off"
  /\ proc' = Booting(env)
  /\ UNCHANGED <<subjectVars, quizVars, response, request, calls, lessons,
                 del>>

\* A start-up check that reports the missing variables and goes on.
envCheckWarnOnly ==
  /\ proc.pc = "envCheck"
  /\ proc' = IF proc.env.NODE_ENV = "test"
             THEN [proc EXCEPT !.pc = "routes"]
             ELSE [proc EXCEPT !.pc = "routes", !.db = "connecting"]
  /\ UNCHANGED <<subjectVars, quizVars, response, request, calls, lessons,
                 del>>

\* Outside the test environment: exit(1) when a required variable is
\* missing, otherwise mongoose.connect is started.
envCheck ==
  /\ proc.pc = "envCheck"
  /\ proc' = IF proc.env.NODE_ENV = "test"
             THEN [proc EXCEPT !.pc = "routes"]
             ELSE IF missingEnvVars(proc.env) # {} THEN Exit("1")
             ELSE [proc EXCEPT !.pc = "routes", !.db = "connecting"]
  /\ UNCHANGED <<subjectVars, quizVars, response, request, calls, lessons,
                 del>>

\* app.get("/health"), app.use("/api/...", ...), the 404 handler and the
\* error middleware are registered.
mountRoutes ==
  /\ proc.pc = "routes"
  /\ proc' = [proc EXCEPT !.pc = "listen"]
  /\ UNCHANGED <<subjectVars, quizVars, response, request, calls, lessons,
                 del>>

\* Outside the test environment the signal handlers are registered and
\* app.listen is called; under test the app is only exported.
listen ==
  /\ proc.pc = "listen"
  /\ proc' = IF proc.env.NODE_ENV = "test"
             THEN [proc EXCEPT !.pc = "exported"]
             ELSE [proc EXCEPT !.pc = "running", !.listening = TRUE]
  /\ UNCHANGED <<subjectVars, quizVars, response, request, calls, lessons,
                 del>>

\* mongoose.connect(...).then(...)
dbConnected ==
  /\ proc.pc \in { "running", "closing" }
  /\ proc.db = "connecting"
  /\ proc' = [proc EXCEPT !.db = "connected"]
  /\ UNCHANGED <<subjectVars, quizVars, response, request, calls, lessons,
                 del>>

\* mongoose.connect(...).catch(...): process.exit(1)
dbFailed ==
  /\ proc.pc \in { "running", "closing" }
  /\ proc.db = "connecting"
  /\ proc' = [Exit("1") EXCEPT !.db = "failed"]
  /\ UNCHANGED <<subjectVars, quizVars, response, request, calls, lessons,
                 del>>

\* The listening server accepts a request, whose handler awaits a
\* persistence call.  No handler of a signal closes the HTTP server, so
\* requests are accepted until the process exits.
accept ==
  /\ proc.listening
  /\ proc.served + proc.inflight < MaxServed
  /\ proc' = [proc EXCEPT !.inflight = @ + 1]
  /\ UNCHANGED <<subjectVars, quizVars, response, request, calls, lessons,
                 del>>

\* The persistence call of an accepted request settles and the request is
\* answered.
serve ==
  /\ proc.listening
  /\ proc.inflight > 0
  /\ proc' = [proc EXCEPT !.served = @ + 1, !.inflight = @ - 1]
  /\ UNCHANGED <<subjectVars, quizVars, response, request, calls, lessons,
                 del>>

\* SIGTERM or SIGINT: gracefulShutdown starts closing the connection.
gracefulShutdown ==
  /\ proc.pc = "running"
  /\ proc' = [proc EXCEPT !.pc = "closing"]
  /\ UNCHANGED <<subjectVars, quizVars, response, request, calls, lessons,
                 del>>

\* mongoose.connection.close(false) settles: exit(0) when it resolves,
\* exit(1) when it rejects.
connectionClosed ==
  /\ proc.pc = "closing"
  /\ \E code \in { "0", "1" } :
       proc' = [Exit(code) EXCEPT
                  !.db = IF code = "0" THEN "closed" ELSE proc.db]
  /\ UNCHANGED <<subjectVars, quizVars, response, request, calls, lessons,
                 del>>

ServerNext ==
  \/ \E env \in Envs : start(env)
  \/ envCheck
  \/ mountRoutes
  \/ listen
  \/ dbConnected
  \/ dbFailed
  \/ accept
  \/ serve
  \/ gracefulShutdown
  \/ connectionClosed


(***************************************************************************)
(* deleteQuiz step by step, one step per await, with results coming in     *)
(* between the steps.                                                      *)
(***************************************************************************)
IdleDelete == [pc |-> "idle", id |-> 0, hasResults |-> FALSE]

\* const quiz = await Quiz.findById(quizId)
deleteQuizFind(id) ==
  /\ del.pc = "idle"
  /\ IF QuizExists(id)
     THEN /\ del' = [pc |-> "check", id |-> id, hasResults |-> FALSE]
          /\ response' = response
     ELSE /\ del' = del
          /\ response' = [op |-> "deleteQuiz", status |-> "404", id |-> id,
                          message |-> "Quiz not found"]
  /\ UNCHANGED <<subjectVars, quizVars, request, calls, lessons, proc>>

\* const hasResults = await QuizResult.exists({ quizId })
deleteQuizCheck ==
  /\ del.pc = "check"
  /\ del' = [del EXCEPT !.pc = "write",
                        !.hasResults = ResultsOf(del.id) # {}]
  /\ UNCHANGED <<subjectVars, quizVars, response, request, calls, lessons,
                 proc>>

\* await quiz.save() with isActive = false, or
\* await Quiz.findByIdAndDelete(quizId)
deleteQuizWrite ==
  /\ del.pc = "write"
  /\ IF del.hasResults
     THEN /\ quizzes' = [quizzes EXCEPT ![del.id].isActive = FALSE]
          /\ response' =
               [op |-> "deleteQuiz", status |-> "200", id |-> del.id,
                message |->
                  "Quiz deactivated successfully (has existing results)"]
     ELSE /\ quizzes' = RemoveQuiz(del.id)
          /\ response' = [op |-> "deleteQuiz", status |-> "200",
                          id |-> del.id,
                          message |-> "Quiz deleted successfully"]
  /\ del' = IdleDelete
  /\ UNCHANGED <<subjectVars, nextQuizId, results, now, request, calls,
                 lessons, proc>>

(***************************************************************************)
(* The inputs of the quiz specifications.                                  *)
(***************************************************************************)
QuestionLists == { <<>>, <<1, 2>> }
OptQuestionLists == {None} \cup {Some(l) : l \in QuestionLists}
OptTotals == {None, Some(0), Some(3)}

\* A quiz created with nothing but its points.
PlainQuiz(points, premium) ==
  [questionIds |-> None, totalQuestions |-> None,
   totalPoints |-> points, premiumOnly |-> premium]

CountCreateInputs ==
  [questionIds : OptQuestionLists, totalQuestions : OptTotals,
   totalPoints : {10}, premiumOnly : {FALSE}]

CountPatches ==
  [questionIds : OptQuestionLists, totalQuestions : OptTotals,
   premiumOnly : {None}, isActive : {None}]

\* Creation, deletion and lookup of quizzes, with results coming in.
LifeNext ==
  \/ createQuiz(PlainQuiz(10, FALSE))
  \/ \E id \in QuizIds : getQuizById(id)
  \/ \E id \in QuizIds : deleteQuiz(id)
  \/ \E id \in QuizIds : insertResult(id, 1, 5, 1)

\* A patch that sets one flag and nothing else.
FlagPatch(premium, active) ==
  [questionIds |-> None, totalQuestions |-> None,
   premiumOnly |-> premium, isActive |-> active]

BulkPatches == { FlagPatch(Some(b), None) : b \in BOOLEAN }

\* One patch applied to sets of quizzes, as time passes.
BulkNext ==
  \/ \E b \in BOOLEAN : createQuiz(PlainQuiz(10, b))
  \/ \E ids \in SUBSET QuizIds, patch \in BulkPatches :
       bulkUpdateQuizzes(ids, patch)
  \/ Tick

ListCreateInputs == [name : { <<"a">>, <<"b">> }, code : { <<"m">>, <<"p">> }]

QuizFilters ==
  [isActive : {None}, premiumOnly : {None}, totalPoints : {None, Some(20)}]

QuizOptions ==
  [page : PageValues, limit : LimitValues, sortOrder : {"desc"},
   isActive : {None, Some(FALSE)}, premiumOnly : {None, Some(TRUE)}]

\* The list calls of both services, over collections that are filled and
\* from which documents are deactivated.
ListNext ==
  \/ \E data \in ListCreateInputs : createSubject(data)
  \/ \E id \in SubjectIds : deleteSubject(id)
  \/ \E query \in Queries : getSubjects(query)
  \/ \E b \in BOOLEAN : createQuiz(PlainQuiz(10, b))
  \/ \E id \in QuizIds : updateQuiz(id, FlagPatch(None, Some(FALSE)))
  \/ \E filters \in QuizFilters, options \in QuizOptions :
       getAllQuizzes(filters, options)

RetakePolicies ==
  { [maxAttempts |-> 0, cooldown |-> 1], [maxAttempts |-> 1, cooldown |-> 1] }

RetakeQuiz(policy) ==
  [questionIds |-> None, totalQuestions |-> None, totalPoints |-> 10,
   premiumOnly |-> FALSE, retakePolicy |-> policy]

\* Attempts at quiz 1 by two users as time passes, and eligibility checks.
RetakeNext ==
  \/ \E policy \in RetakePolicies : createQuiz(RetakeQuiz(policy))
  \/ \E userId \in UserIds : insertResult(1, userId, 5, 1)
  \/ Tick
  \/ \E id \in QuizIds, userId \in UserIds : canUserTakeQuiz(id, userId)

\* One deleteQuiz at a time, interleaved with the recording of attempts.
DeleteRaceNext ==
  \/ createQuiz(PlainQuiz(10, FALSE))
  \/ \E id \in QuizIds, userId \in UserIds : insertResult(id, userId, 5, 1)
  \/ \E id \in QuizIds : deleteQuizFind(id)
  \/ deleteQuizCheck
  \/ deleteQuizWrite

SubjectQuiz(subjectId) ==
  [questionIds |-> None, totalQuestions |-> None, totalPoints |-> 10,
   premiumOnly |-> FALSE, subjectId |-> subjectId]

PageOptions ==
  [page : { Absent, <<"0">> }, limit : { Absent, <<"1">> },
   sortOrder : {"desc"}, isActive : {None}, premiumOnly : {None}]

\* The operations of the quiz service, each of which may also fail in its
\* first persistence call.
ErrorNext ==
  \/ \E subjectId \in {1, 2} : createQuiz(SubjectQuiz(subjectId))
  \/ \E id \in QuizIds : getQuizById(id)
  \/ \E id \in QuizIds : updateQuiz(id, FlagPatch(Some(TRUE), None))
  \/ \E id \in QuizIds : deleteQuiz(id)
  \/ \E id \in QuizIds, userId \in UserIds : canUserTakeQuiz(id, userId)
  \/ \E id \in QuizIds : getQuizStatistics(id)
  \/ \E subjectId \in {1, 2}, options \in PageOptions :
       getQuizzesBySubject(subjectId, options)
  \/ \E op \in QuizOps, error \in Thrown : persistenceFails(op, error)

\* The score and the time of an attempt.
Attempts == { <<0, 1>>, <<2, 1>>, <<3, 2>> }

\* Results coming in, analytics recomputed and statistics read on demand.
AnalyticsNext ==
  \/ createQuiz(PlainQuiz(10, FALSE))
  \/ \E id \in QuizIds, a \in Attempts : insertResult(id, 1, a[1], a[2])
  \/ \E id \in QuizIds : updateQuizAnalytics(id)
  \/ \E id \in QuizIds : getQuizStatistics(id)

\* Creation and update of quizzes with questionIds and totalQuestions.
\* An update whose data carries an analytics snapshot of the caller's.
SuppliedAnalytics ==
  [totalAttempts |-> 5, averageScore |-> 9, averageTime |-> 1,
   completionRate |-> 100]

AnalyticsPatch == FlagPatch(None, None) @@ [analytics |-> SuppliedAnalytics]

SnapshotScores == { 0, 3 }

\* Results arrive, the snapshot is recomputed on demand, and quizzes are
\* updated with data that carries an analytics field.
SnapshotNext ==
  \/ createQuiz(PlainQuiz(10, FALSE))
  \/ \E id \in QuizIds, score \in SnapshotScores : insertResult(id, 1, score, 2)
  \/ \E id \in QuizIds : updateQuizAnalytics(id)
  \/ \E id \in QuizIds : updateQuiz(id, AnalyticsPatch)

\* Scores at 0, on a boundary of two ranges, at totalPoints and above it.
DistributionScores == { 0, 2, 10, 11 }

\* Results of one user arrive and the statistics are read.
DistributionNext ==
  \/ createQuiz(PlainQuiz(10, FALSE))
  \/ \E id \in QuizIds, score \in DistributionScores :
       insertResult(id, 1, score, 1)
  \/ \E id \in QuizIds : getQuizStatistics(id)

CountNext ==
  \/ \E data \in CountCreateInputs : createQuiz(data)
  \/ \E id \in QuizIds : getQuizById(id)
  \/ \E id \in QuizIds, patch \in CountPatches : updateQuiz(id, patch)

Init ==
  /\ subjects = <<>>
  /\ uniqueIndex \in BOOLEAN
  /\ response = Reply("none", "none")
  /\ reqs = IdleReqs
  /\ quizzes = <<>>
  /\ nextQuizId = 1
  /\ results = <<>>
  /\ now = 0
  /\ request = IdleRequest
  /\ calls = <<>>
  /\ lessons = <<>>
  /\ proc = NotStarted
  /\ del = IdleDelete

\* Subjects are created, deleted, listed, searched and read, and updated
\* with data that carries a status.
VisibilityCreateInputs ==
  [name : { <<"a">>, <<"b">> }, code : { <<"m">> , <<"p">> }]

VisibilityQueries ==
  [page : {Absent}, limit : {Absent},
   isActive : {"undefined", "true", "false"}, sortOrder : {"asc"},
   status : {"undefined", "inactive"}]

SearchTerms == { <<"a">>, <<"a", "+">>, <<" ", "b", "+">>, <<"+", "a">> }

StatusPatches ==
  { [name |-> Absent, code |-> Absent, status |-> "active"],
    [name |-> Absent, code |-> Absent, status |-> "active",
     isActive |-> TRUE] }

VisibilityNext ==
  \/ \E data \in VisibilityCreateInputs : createSubject(data)
  \/ \E id \in SubjectIds : deleteSubject(id)
  \/ \E id \in SubjectIds : getSubjectById(id)
  \/ \E query \in VisibilityQueries : getSubjects(query)
  \/ \E term \in SearchTerms, filters \in SUBSET SubjectIds :
       searchSubjects(term, filters)
  \/ \E id \in SubjectIds, patch \in StatusPatches : updateSubject(id, patch)

SubjectNext ==
  \/ \E data \in CreateInputs : createSubject(data)
  \/ \E id \in SubjectIds : getSubjectById(id)
  \/ \E id \in SubjectIds, patch \in Patches : updateSubject(id, patch)
  \/ \E id \in SubjectIds : deleteSubject(id)

SubjectSpec == Init /\ [][SubjectNext]_vars

VisibilitySpec == Init /\ [][VisibilityNext]_vars

\* Concurrent createSubject calls, interleaved at their awaits.
RaceSpec == Init /\ [][RaceNext]_vars

\* The quiz specifications start without a unique index on Subject, which
\* they never read.
QuizInit == Init /\ ~uniqueIndex

LifeSpec == QuizInit /\ [][LifeNext]_vars

CountSpec == QuizInit /\ [][CountNext]_vars

DistributionSpec == QuizInit /\ [][DistributionNext]_vars

SnapshotSpec == QuizInit /\ [][SnapshotNext]_vars

AnalyticsSpec == QuizInit /\ [][AnalyticsNext]_vars

BulkSpec == QuizInit /\ [][BulkNext]_vars

ListSpec == QuizInit /\ [][ListNext]_vars

RetakeSpec == QuizInit /\ [][RetakeNext]_vars

DeleteRaceSpec == QuizInit /\ [][DeleteRaceNext]_vars

ErrorSpec == QuizInit /\ [][ErrorNext]_vars

\* Requests to the question router, one after the other.
RouteSpec == QuizInit /\ [][RouteNext]_vars

\* One run of the server process, from its start to its exit.
ServerSpec == QuizInit /\ [][ServerNext]_vars

\* Physics lessons created, updated and deleted by three users.
LessonSpec == QuizInit /\ [][LessonNext]_vars

(***************************************************************************)
(* Properties of the quiz service.                                         *)
(***************************************************************************)
DeletedMessage == "Quiz deleted successfully"
DeactivatedMessage == "Quiz deactivated successfully (has existing results)"

\* C4: deleteQuiz on a stored quiz without results removes it for good, so
\* every later getQuizById of that id answers 404; on a stored quiz with a
\* result it keeps the quiz, which getQuizById returns with isActive =
\* false; the two outcomes carry different messages.
C4_DeleteQuizHardOrSoft ==
  [][/\ \A id \in QuizIds :
          (deleteQuiz(id) /\ QuizExists(id)) =>
            IF \E i \in 1..Len(results) : results[i].quizId = id
            THEN /\ id \in DOMAIN quizzes'
                 /\ quizzes'[id].isActive = FALSE
                 /\ response'.status = "200"
                 /\ response'.message = DeactivatedMessage
            ELSE /\ id \notin DOMAIN quizzes'
                 /\ response'.status = "200"
                 /\ response'.message = DeletedMessage
     /\ \A id \in QuizIds :
          (id < nextQuizId /\ ~QuizExists(id)) => id \notin DOMAIN quizzes'
     /\ \A id \in QuizIds :
          getQuizById(id) =>
            IF QuizExists(id)
            THEN /\ response'.status = "200"
                 /\ response'.data.isActive = quizzes[id].isActive
            ELSE response'.status = "404"
     /\ DeletedMessage # DeactivatedMessage]_vars

\* C4 witness: quiz 1 was deleted without results and a later getQuizById
\* of it answered 404, while quiz 2, deleted with a result, is stored and
\* inactive.
C4_BothOutcomes ==
  /\ response.op = "getQuizById" /\ response.status = "404"
  /\ response.id = 1 /\ nextQuizId > 2
  /\ ~QuizExists(1)
  /\ QuizExists(2) /\ ~quizzes[2].isActive
  /\ \E i \in 1..Len(results) : results[i].quizId = 2

\* C5: every updateQuiz of a stored quiz whose patch holds questionIds
\* leaves totalQuestions equal to the length of the new questionIds,
\* whatever totalQuestions the patch carries, or none.
C5_UpdateRecomputesTotal ==
  [][\A id \in QuizIds, patch \in CountPatches :
       (updateQuiz(id, patch) /\ QuizExists(id)
          /\ patch.questionIds # None)
         => quizzes'[id].totalQuestions = Some(Len(patch.questionIds[1]))]_vars

(***************************************************************************)
(* Properties of the subject service.                                      *)
(***************************************************************************)
\* data collides with a stored subject: same name ignoring case, or the
\* upper-cased code is a stored code.
Collides(subs, data) ==
  \E i \in 1..Len(subs) :
    \/ EqualsIgnoreCase(subs[i].name, data.name)
    \/ subs[i].code = toUpperCase(data.code)

\* C1: every createSubject whose name equals an existing name ignoring case,
\* or whose upper-cased code is an existing code, fails with Conflict and
\* leaves the stored subjects unchanged.
C1_CollidingCreateConflicts ==
  [][\A data \in CreateInputs :
       (Collides(subjects, data) /\ createSubject(data))
         => (response'.status = "Conflict" /\ subjects' = subjects)]_vars

\* C2: no two non-deleted subjects share a name (ignoring case) or a code
\* (upper-cased), after any sequence of completed create, update and delete
\* calls.
C2_NamesAndCodesUnique ==
  \A i, j \in 1..Len(subjects) :
    (i # j /\ subjects[i].status = "active" /\ subjects[j].status = "active")
      => /\ ~EqualsIgnoreCase(subjects[i].name, subjects[j].name)
         /\ toUpperCase(subjects[i].code) # toUpperCase(subjects[j].code)

\* A name with no regular-expression operator in it.
PlainName(name) == \A i \in 1..Len(name) : name[i] # "+"

\* C3: two stored subjects created by createSubject share a code, or a
\* (plain) name ignoring case, only when no unique index is enforced and the
\* later call's lookup ran before the earlier call's save: the pre-check
\* rules out duplicates between calls that do not interleave, and nothing
\* but the store's rejection rules them out between calls that do.
C3_DuplicatesOnlyByInterleaving ==
  \A r1, r2 \in ReqIds :
    (/\ reqs[r1].pc = "saved" /\ reqs[r2].pc = "saved"
     /\ reqs[r1].savedAs < reqs[r2].savedAs)
      => /\ toUpperCase(reqs[r1].code) = toUpperCase(reqs[r2].code)
              => (~uniqueIndex /\ reqs[r2].seenCode < reqs[r1].savedAs)
         /\ (EqualsIgnoreCase(reqs[r1].name, reqs[r2].name)
               /\ PlainName(reqs[r2].name))
              => (~uniqueIndex /\ reqs[r2].seenName < reqs[r1].savedAs)

\* C3 witness: two interleaved calls with the same name and code both passed
\* their pre-checks and both documents are stored.
C3_BothSaved ==
  \E r1, r2 \in ReqIds :
    /\ r1 # r2 /\ reqs[r1].pc = "saved" /\ reqs[r2].pc = "saved"
    /\ reqs[r1].name = reqs[r2].name /\ PlainName(reqs[r1].name)
    /\ reqs[r1].code = reqs[r2].code
    /\ Len(subjects) = 2
    /\ subjects[1].name = subjects[2].name
    /\ subjects[1].code = subjects[2].code

\* C6: deleteSubject on an existing subject only sets isActive = false and
\* status = inactive, keeping the document, its other fields and every
\* other subject; on an absent id it fails with NotFound; and no step of the
\* subject service lowers the number of stored subjects.
C6_DeleteIsSoft ==
  [][/\ Len(subjects') >= Len(subjects)
     /\ \A id \in SubjectIds :
          deleteSubject(id) =>
            IF id \in 1..Len(subjects)
            THEN /\ response'.status = "ok"
                 /\ Len(subjects') = Len(subjects)
                 /\ subjects'[id].isActive = FALSE
                 /\ subjects'[id].status = "inactive"
                 /\ \A f \in {"name", "code"} :
                      subjects'[id][f] = subjects[id][f]
                 /\ \A j \in 1..Len(subjects) :
                      j # id => subjects'[j] = subjects[j]
            ELSE /\ response'.status = "NotFound"
                 /\ subjects' = subjects]_vars

\* C6 witness: a delete succeeded on one of two stored subjects, which is
\* still stored and inactive, beside an active one.
C6_Deleted ==
  /\ response.op = "deleteSubject" /\ response.status = "ok"
  /\ Len(subjects) = 2
  /\ \E i, j \in 1..2 :
       /\ subjects[i].status = "inactive" /\ ~subjects[i].isActive
       /\ subjects[j].status = "active"

\* r is num / den rounded to the nearest integer.
IsNearest(r, num, den) ==
  /\ 2 * (r * den - num) <= den
  /\ 2 * (num - r * den) <= den

\* C8: for a stored quiz with n >= 1 results, updateQuizAnalytics stores and
\* returns totalAttempts = n, averageScore and averageTime = the sums over
\* n rounded to the nearest integer, and completionRate = 100 * (results
\* with score > 0) / n rounded to the nearest integer; scores 10, 15, 18, 20
\* give averageScore 16 and completionRate 100.
C8_AnalyticsFormulas ==
  [][\A id \in QuizIds :
       (updateQuizAnalytics(id) /\ QuizExists(id)
          /\ \E i \in 1..Len(results) : results[i].quizId = id)
         => LET mine == { i \in 1..Len(results) : results[i].quizId = id }
                n == Cardinality(mine)
                done == Cardinality({ i \in mine : results[i].score > 0 })
                a == quizzes'[id].analytics
            IN  /\ response'.status = "200"
                /\ response'.data = a
                /\ a.totalAttempts = n
                /\ IsNearest(a.averageScore, SumOf("score", mine), n)
                /\ IsNearest(a.averageTime, SumOf("timeTaken", mine), n)
                /\ IsNearest(a.completionRate, 100 * done, n)
                /\ MathRound(10 + 15 + 18 + 20, 4) = 16
                /\ MathRound(100 * 4, 4) = 100]_vars

\* C8 witness: analytics were recomputed over three results of quiz 1 whose
\* average score 5/3 is no integer, one of them with score 0.
C8_Recomputed ==
  /\ response.op = "updateQuizAnalytics" /\ response.status = "200"
  /\ response.id = 1 /\ QuizExists(1)
  /\ quizzes[1].analytics.totalAttempts = 3
  /\ quizzes[1].analytics.averageScore = 2
  /\ quizzes[1].analytics.completionRate = 67
  /\ \A i \in 1..Len(results) : results[i].quizId = 1
  /\ SumOf("score", 1..Len(results)) = 5

\* The bucket the claim puts a score in: the k in 1..5 with
\* (k-1) * 20% of totalPoints < score <= k * 20% of totalPoints, 0 if none.
BucketOf(score, totalPoints) ==
  IF score <= 0 \/ score > totalPoints THEN 0
  ELSE (5 * score + totalPoints - 1) \div totalPoints

\* C9: in the score distribution of getQuizStatistics, bucket k counts
\* exactly the results with (k-1) * 20% of totalPoints < score <= k * 20% of
\* totalPoints, so a score on the boundary k * 20% is counted in bucket k
\* and not in bucket k + 1.
C9_BucketBoundaries ==
  [][\A id \in QuizIds :
       (getQuizStatistics(id) /\ QuizExists(id))
         => LET mine == { i \in 1..Len(results) : results[i].quizId = id }
                points == quizzes[id].totalPoints
                dist == response'.data.scoreDistribution
            IN  /\ \A k \in 1..5 :
                     dist[k].count =
                       Cardinality({ i \in mine :
                         BucketOf(results[i].score, points) = k })
                /\ \A k \in 1..4 :
                     (mine # {} /\ \A i \in mine :
                                     5 * results[i].score = k * points)
                       => /\ dist[k].count = Cardinality(mine)
                          /\ dist[k + 1].count = 0]_vars

\* C9 witness: the statistics of quiz 1 (10 points) were read with a result
\* of score 2, on the boundary of the first two buckets, counted in the
\* first and not in the second.
C9_BoundaryCounted ==
  /\ response.op = "getQuizStatistics" /\ response.status = "200"
  /\ response.id = 1 /\ QuizExists(1) /\ quizzes[1].totalPoints = 10
  /\ \E i \in 1..Len(results) :
       results[i].quizId = 1 /\ results[i].score = 2
  /\ response.data.scoreDistribution[1].count >= 1
  /\ response.data.scoreDistribution[2].count = 0

(***************************************************************************)
(* Claims about the list calls and the bulk update.                        *)
(***************************************************************************)
\* n is the number of pages of `limit` items that hold `total` items; the
\* quotient total / 0 is left open.
IsPageCount(n, total, limit) ==
  limit > 0 => /\ n.kind = "number"
               /\ n.val * limit >= total
               /\ n.val > 0 => (n.val - 1) * limit < total

\* C7: every getSubjects and getAllQuizzes call that returns a page, for
\* any page and limit given as query strings or left out (limit "0"
\* included), reports totalPages = ceil(total / limit) and returns at most
\* limit items.
C7_PagesAndItemsWithinLimit ==
  [][/\ \A query \in Queries :
          (getSubjects(query) /\ response'.status = "ok")
            => /\ IsPageCount(response'.pagination.totalPages,
                              response'.pagination.totalCount,
                              SubjectLimit(query))
               /\ Len(response'.items) <= SubjectLimit(query)
     /\ \A filters \in QuizFilters, options \in QuizOptions :
          (getAllQuizzes(filters, options) /\ response'.status = "200")
            => /\ IsPageCount(response'.pagination.totalPages,
                              response'.pagination.totalItems,
                              QuizLimit(options))
               /\ Len(response'.items) <= QuizLimit(options)]_vars

\* C10: every bulkUpdateQuizzes reports as matchedCount the number of
\* stored quizzes whose id is in the given set, and as modifiedCount the
\* number of those whose premiumOnly differs from the value of the patch:
\* a matched quiz that already holds the target value is not counted.
C10_ModifiedCountsOnlyChanges ==
  [][\A ids \in SUBSET QuizIds, patch \in BulkPatches :
       bulkUpdateQuizzes(ids, patch)
         => /\ response'.data.matchedCount
                 = Cardinality(ids \cap DOMAIN quizzes)
            /\ response'.data.modifiedCount
                 = Cardinality({ id \in ids \cap DOMAIN quizzes :
                       quizzes[id].premiumOnly # patch.premiumOnly[1] })]_vars

(***************************************************************************)
(* Properties of the question router.                                      *)
(***************************************************************************)
Checks == { "authMiddleware", "roleMiddleware", "validateMiddleware" }

\* C11: a POST / request the rate limiter lets through is answered 401
\* when it has no valid token, 403 when its role is neither teacher nor
\* admin (whatever its body), 400 when it is permitted and its body is
\* invalid; the checks are passed in the order authentication, role,
\* validation, and createQuestion is invoked only by a request that has
\* passed all three.
C11_CreateChecksInOrder ==
  /\ (request.route = "POST /" /\ ~request.limited)
       => /\ request.status # "pending"
               => /\ ~request.token => request.status = "401"
                  /\ (request.token /\ request.role \notin {"teacher", "admin"})
                       => request.status = "403"
                  /\ (request.token /\ request.role \in {"teacher", "admin"}
                        /\ ~request.dataValid)
                       => request.status = "400"
          /\ "roleMiddleware" \in request.passed
               => "authMiddleware" \in request.passed
          /\ "validateMiddleware" \in request.passed
               => "roleMiddleware" \in request.passed
          /\ AtStage("controller") => Checks \subseteq request.passed
  /\ \A i \in 1..Len(calls) :
       calls[i].op = "createQuestion" => Checks \subseteq calls[i].passed

\* C11 witness: a teacher's valid POST / was answered 201 after
\* createQuestion was invoked.
C11_Created ==
  /\ request.route = "POST /" /\ request.status = "201"
  /\ request.user = "teacher"
  /\ Len(calls) > 0 /\ calls[Len(calls)].op = "createQuestion"

\* C12: every question service operation is invoked for an authenticated
\* actor: createQuestion and updateQuestion for a teacher or an admin,
\* deleteQuestion and verifyQuestion for an admin, and the two reads for
\* any role, no authenticated reader being turned away for its role.
C12_OperationsByRole ==
  /\ \A i \in 1..Len(calls) :
       LET c == calls[i]
       IN  /\ c.user \in Roles
           /\ "authMiddleware" \in c.passed
           /\ c.op \in {"createQuestion", "updateQuestion"}
                => c.user \in {"teacher", "admin"}
           /\ c.op \in {"deleteQuestion", "verifyQuestion"}
                => c.user = "admin"
  /\ (request.route \in {"GET /:id", "GET /"} /\ request.token
        /\ request.status # "pending")
       => request.status \notin {"401", "403"}

\* C12 witness: an admin's DELETE /:id reached deleteQuestion.
C12_AdminDeleted ==
  /\ request.route = "DELETE /:id" /\ request.status = "200"
  /\ Len(calls) > 0
  /\ calls[Len(calls)].op = "deleteQuestion"
  /\ calls[Len(calls)].user = "admin"

\* C13: every question service operation, getQuestionById, deleteQuestion
\* and verifyQuestion included, is invoked only for a request that a
\* validation schema has been run on.
C13_ValidatedBeforeService ==
  \A i \in 1..Len(calls) : "validateMiddleware" \in calls[i].passed

(***************************************************************************)
(* Properties of the physics lesson controller.                            *)
(***************************************************************************)
\* The controller op answered `status` for lesson id and invoked nothing.
StoppedWith(op, id, status) ==
  /\ response' = LessonReply(op, id, status)
  /\ calls' = calls
  /\ lessons' = lessons

\* C14: updateLesson and deleteLesson answer 404 for a lesson that does
\* not exist and 403 for an actor who is neither the lesson's creator nor
\* an admin, without invoking the service; the service's updateLesson or
\* deleteLesson is invoked only for the creator or an admin.
C14_OwnershipBeforeService ==
  [][\A id \in LessonIds, user \in Users :
       /\ \A op \in {"updateLesson", "deleteLesson"} :
            ((IF op = "updateLesson" THEN updateLesson(id, user)
              ELSE deleteLesson(id, user))
             => /\ ~LessonExists(id) => StoppedWith(op, id, "404")
                /\ (/\ LessonExists(id)
                    /\ lessons[id].createdBy # user.id
                    /\ user.role # "admin")
                     => StoppedWith(op, id, "403")
                /\ response'.status = "200"
                     => /\ LessonExists(id)
                        /\ lessons[id].createdBy = user.id
                             \/ user.role = "admin"
                        /\ calls'[Len(calls')] = LessonCall(op, id, user))]_vars

\* C14 witness: user 2, a teacher, was refused the deletion of a lesson
\* that user 1 created, and the lesson is still stored.
C14_Refused ==
  /\ response = LessonReply("deleteLesson", 1, "403")
  /\ LessonExists(1) /\ lessons[1].createdBy = 1
  /\ \A i \in 1..Len(calls) : calls[i].op = "createLesson"

(***************************************************************************)
(* Properties of the eligibility check.                                    *)
(***************************************************************************)
\* The answer of a denied check over the attempts S of the user.
DeniedAnswer(quizId, S) ==
  /\ response'.status = "200"
  /\ ~response'.data.canTake
  /\ response'.data.attemptsUsed = Cardinality(S)
  /\ LET last == CHOOSE i \in S :
                   \A j \in S : results[j].createdAt <= results[i].createdAt
         next == results[last].createdAt
                   + quizzes[quizId].retakePolicy.cooldown
     IN  response'.data.nextRetakeTime
           = IF next > now THEN Some(next) ELSE None

PatchCollides(subs, id, patch) ==
  \E j \in 1..Len(subs) :
    /\ j # id
    /\ \/ /\ patch.code # Absent /\ patch.code # subs[id].code
          /\ toUpperCase(patch.code) = subs[j].code
       \/ /\ patch.name # Absent /\ patch.name # subs[id].name
          /\ EqualsIgnoreCase(patch.name, subs[j].name)

\* C16: updateSubject fails with NotFound for an absent id and with
\* Conflict when the patch changes the code or the name to a value held
\* by a different subject, and stores nothing in both cases; a patch
\* value equal to the stored one, or held by the updated subject only,
\* raises no Conflict.
C16_UpdateRejectsDuplicates ==
  [][\A id \in SubjectIds, patch \in Patches :
       updateSubject(id, patch)
         => /\ ~Exists(subjects, id)
                 => /\ response'.status = "NotFound"
                    /\ subjects' = subjects
            /\ (Exists(subjects, id) /\ PatchCollides(subjects, id, patch))
                 => /\ response'.status = "Conflict"
                    /\ subjects' = subjects
            /\ (/\ Exists(subjects, id)
                /\ patch.code \in {Absent, subjects[id].code}
                /\ patch.name \in {Absent, subjects[id].name})
                 => response'.status # "Conflict"]_vars

(***************************************************************************)
(* Properties of the server process.                                       *)
(***************************************************************************)
\* C17: outside the test environment, a process started without
\* MONGO_URI or without JWT_SECRET has exited with code 1 once the
\* start-up check has run, without having started to connect to the
\* database and without ever listening or serving a request.
C17_MissingEnvIsFatal ==
  (/\ proc.pc \notin { "off", "envCheck" }
   /\ proc.env.NODE_ENV # "test"
   /\ \/ proc.env.MONGO_URI \in { "unset", "" }
      \/ proc.env.JWT_SECRET \in { "unset", "" })
    => /\ proc.pc = "exited"
       /\ proc.exitCode = "1"
       /\ proc.db = "none"
       /\ ~proc.listening
       /\ proc.served = 0

\* C17 witness: a production process without JWT_SECRET has exited.
C17_Exited ==
  /\ proc.pc = "exited" /\ proc.exitCode = "1"
  /\ proc.env.NODE_ENV = "production"
  /\ proc.env.MONGO_URI = "value" /\ proc.env.JWT_SECRET = "unset"

(***************************************************************************)
(* Properties of the filters of the list calls.                            *)
(***************************************************************************)
\* C18: a key that is no recognised filter of the resource has no effect
\* on the records a list call selects: getSubjects answers as it does
\* without the key status, and getAllQuizzes as it does without the key
\* totalPoints among its filters.
C18_UnrecognisedKeysIgnored ==
  [][/\ \A query \in Queries :
          getSubjects(query)
            => response'
                 = getSubjectsResult(subjects,
                                     [query EXCEPT !.status = "undefined"])
     /\ \A filters \in QuizFilters, options \in QuizOptions :
          getAllQuizzes(filters, options)
            => response'
                 = getAllQuizzesResult([filters EXCEPT !.totalPoints = None],
                                       options)]_vars

(***************************************************************************)
(* Properties of totalQuestions.                                           *)
(***************************************************************************)
\* C19: whenever createQuiz or updateQuiz is given both questionIds and
\* totalQuestions, the stored totalQuestions is the length of the given
\* questionIds, for every given totalQuestions, 0 included, and every
\* list, the empty one included.
C19_TotalMatchesWhenBothGiven ==
  [][/\ \A data \in CountCreateInputs :
          (/\ createQuiz(data)
           /\ data.questionIds # None /\ data.totalQuestions # None)
            => quizzes'[nextQuizId].totalQuestions
                 = Some(Len(data.questionIds[1]))
     /\ \A id \in QuizIds, patch \in CountPatches :
          (/\ updateQuiz(id, patch) /\ QuizExists(id)
           /\ patch.questionIds # None /\ patch.totalQuestions # None)
            => quizzes'[id].totalQuestions
                 = Some(Len(patch.questionIds[1]))]_vars

(***************************************************************************)
(* Properties of deleteQuiz under interleaving.                            *)
(***************************************************************************)
\* C20: in every reachable state every stored QuizResult refers to a
\* stored quiz, also when a result is inserted between the existence
\* check of a deleteQuiz and its physical delete.
C20_ResultsReferToStoredQuizzes ==
  \A i \in 1..Len(results) : QuizExists(results[i].quizId)

(***************************************************************************)
(* Properties of the error handlers of the quiz service.                   *)
(***************************************************************************)
\* C21: getQuizById, updateQuiz, deleteQuiz, canUserTakeQuiz and
\* getQuizStatistics on an absent quiz answer 404; an error thrown by
\* persistence becomes 400 when it is a ValidationError in createQuiz or
\* updateQuiz and 500 otherwise; getQuizzesBySubject answers what
\* getAllQuizzes answers and 500 when getAllQuizzes fails with 500; and no
\* operation answers 500 without such a failure.
C21_TypedErrorsKeepStatus ==
  [][/\ \A id \in QuizIds :
          (/\ ~QuizExists(id)
           /\ \/ getQuizById(id)
              \/ deleteQuiz(id)
              \/ getQuizStatistics(id)
              \/ updateQuiz(id, FlagPatch(Some(TRUE), None))
              \/ \E userId \in UserIds : canUserTakeQuiz(id, userId))
            => response'.status = "404"
     /\ \A op \in QuizOps, error \in Thrown :
          persistenceFails(op, error)
            => response'.status
                 = IF /\ error = "ValidationError"
                      /\ op \in { "createQuiz", "updateQuiz" }
                   THEN "400" ELSE "500"
     /\ \A subjectId \in {1, 2}, options \in PageOptions :
          getQuizzesBySubject(subjectId, options)
            => LET skip == (QuizPage(options) - 1) * QuizLimit(options)
               IN  response'.status = IF skip < 0 THEN "500" ELSE "200"
     /\ (response'.status = "500" /\ response' # response)
          => \/ "thrown" \in DOMAIN response' /\ response'.thrown = "Error"
             \/ /\ "thrown" \in DOMAIN response'
                /\ response'.op \notin { "createQuiz", "updateQuiz" }
             \/ response'.op = "getQuizzesBySubject"]_vars

\* C21 witness: an updateQuiz whose write failed validation was answered
\* 400 while a quiz is stored.
C21_ValidationRejected ==
  /\ response.op = "updateQuiz" /\ response.status = "400"
  /\ response.thrown = "ValidationError"
  /\ QuizExists(1)

(***************************************************************************)
(* Claims about the analytics snapshot.                                    *)
(***************************************************************************)
\* Inserting a result leaves every quiz as stored, and a recomputation for
\* a quiz without results writes nothing and returns no value.
InsertAndEmptyRecomputeWriteNothing ==
  /\ \A id \in QuizIds, score \in SnapshotScores :
       insertResult(id, 1, score, 2) => quizzes' = quizzes
  /\ \A id \in QuizIds :
       (updateQuizAnalytics(id) /\ ResultsOf(id) = {})
         => /\ quizzes' = quizzes
            /\ response'.status = "undefined"
            /\ "data" \notin DOMAIN response'

\* The stored analytics of quiz id differ before and after the step.
AnalyticsChanged(id) ==
  /\ QuizExists(id) /\ id \in DOMAIN quizzes'
  /\ quizzes'[id].analytics # quizzes[id].analytics

\* C22 as stated: the stored analytics of a quiz change only in a step of
\* updateQuizAnalytics; inserting a result leaves them unchanged, and the
\* recomputation for a quiz without results writes nothing and returns no
\* value.
C22_AnalyticsOnlyByRecompute ==
  [][/\ InsertAndEmptyRecomputeWriteNothing
     /\ \A id \in QuizIds : AnalyticsChanged(id) => updateQuizAnalytics(id)]_vars

\* C22 amended: inserting a result leaves the stored analytics unchanged,
\* the recomputation for a quiz without results writes nothing and returns
\* no value, and the stored analytics of a quiz change only in a step of
\* updateQuizAnalytics for a quiz with results or of an update whose data
\* carries an analytics field.
C22_AnalyticsByRecomputeOrUpdate ==
  [][/\ InsertAndEmptyRecomputeWriteNothing
     /\ \A id \in QuizIds :
          AnalyticsChanged(id)
            => \/ updateQuizAnalytics(id) /\ ResultsOf(id) # {}
               \/ updateQuiz(id, AnalyticsPatch)]_vars

\* C22 witness: a result was inserted for quiz 1 after its analytics were
\* recomputed, and the stored snapshot differs from the recomputed values.
C22_StaleSnapshot ==
  /\ response.op = "insertResult" /\ QuizExists(1)
  /\ Cardinality(ResultsOf(1)) = 2
  /\ quizzes[1].analytics.totalAttempts = 1
  /\ quizzes[1].analytics # computeAnalytics(ResultsOf(1))
(***************************************************************************)
(* Claims about the shutdown of the server.                                *)
(***************************************************************************)
\* C23: while an accepted request still awaits a persistence call, the
\* database connection is not closed and the process has not exited after
\* a signal.
C23_DrainBeforeClose ==
  (proc.inflight > 0)
    => /\ proc.db # "closed"
       /\ ~(proc.pc = "exited" /\ proc.exitCode = "0")
(***************************************************************************)
(* Claims about deleted subjects.                                          *)
(***************************************************************************)
\* The answer r of getSubjects or searchSubjects holds subject id.
ListedIn(r, id) ==
  /\ r.op \in { "getSubjects", "searchSubjects" }
  /\ r.status = "ok"
  /\ \E k \in 1..Len(r.items) : r.items[k] = id

\* A delete of a stored subject succeeds and leaves it inactive, a delete of
\* a deleted subject changes nothing, and a stored subject is read by id
\* whatever its status.
DeleteKeepsReadable ==
  \A id \in SubjectIds :
    /\ (deleteSubject(id) /\ Exists(subjects, id))
         => /\ response'.status = "ok"
            /\ subjects'[id].status = "inactive" /\ ~subjects'[id].isActive
            /\ (subjects[id].status = "inactive" /\ ~subjects[id].isActive)
                 => subjects' = subjects
    /\ (getSubjectById(id) /\ Exists(subjects, id))
         => /\ response'.status = "ok"
            /\ response'.doc = subjects[id]

\* Some list or search call on the stored subjects subs returns subject id.
Listable(subs, id) ==
  \/ \E query \in VisibilityQueries :
       ListedIn(getSubjectsResult(subs, query), id)
  \/ \E term \in SearchTerms, filters \in SUBSET SubjectIds :
       ListedIn(searchSubjectsResult(subs, term, filters), id)

\* C24 as stated: once deleteSubject(s) has succeeded, s is never returned
\* by getSubjects or searchSubjects: no step returns a deleted subject or
\* leaves it within reach of a list or search call; getSubjectById(s)
\* succeeds and a second deleteSubject(s) succeeds and changes nothing.
C24_DeletedNeverListed ==
  [][/\ DeleteKeepsReadable
     /\ \A id \in 1..Len(subjects) :
          subjects[id].status = "inactive"
            => /\ ~ListedIn(response', id)
               /\ ~Listable(subjects', id)]_vars

\* C24 amended: getSubjects and searchSubjects never return a subject whose
\* status is not active, so a deleted subject is not returned for as long
\* as its status stays inactive; the status of a deleted subject becomes
\* active again only in an updateSubject whose data sets it; getSubjectById
\* of a deleted subject succeeds, and a second deleteSubject succeeds and
\* changes nothing.
C24_InactiveNotListed ==
  [][/\ DeleteKeepsReadable
     /\ (\/ \E query \in VisibilityQueries : getSubjects(query)
         \/ \E term \in SearchTerms, filters \in SUBSET SubjectIds :
              searchSubjects(term, filters))
          => \A id \in 1..Len(subjects) :
               subjects[id].status # "active" => ~ListedIn(response', id)
     /\ \A id \in 1..Len(subjects) :
          (subjects[id].status = "inactive" /\ subjects'[id].status = "active")
            => \E patch \in StatusPatches : updateSubject(id, patch)]_vars

\* C24 witness: subject 1 is deleted, subject 2 is active, and a list call
\* answered with subject 2 alone.
C24_DeletedLeftOut ==
  /\ Len(subjects) = 2
  /\ subjects[1].status = "inactive" /\ ~subjects[1].isActive
  /\ subjects[2].status = "active"
  /\ response.op = "getSubjects" /\ response.status = "ok"
  /\ response.items = <<2>>
\* A deleted subject other than exceptId holds the name, or the upper-cased
\* code.
HeldByDeleted(subs, name, code, exceptId) ==
  \E i \in 1..Len(subs) :
    /\ i # exceptId
    /\ subs[i].status = "inactive"
    /\ \/ name # Absent /\ subs[i].name = name
       \/ code # Absent /\ subs[i].code = toUpperCase(code)

\* C25: a createSubject that uses the name or the code of a deleted subject,
\* and an updateSubject that changes another subject to the name or the code
\* of a deleted subject, fail with Conflict and store nothing.
C25_DeletedNamesStayTaken ==
  [][/\ \A data \in CreateInputs :
          (createSubject(data)
             /\ HeldByDeleted(subjects, data.name, data.code, 0))
            => (response'.status = "Conflict" /\ subjects' = subjects)
     /\ \A id \in SubjectIds, patch \in Patches :
          (/\ updateSubject(id, patch) /\ Exists(subjects, id)
           /\ HeldByDeleted(subjects,
                            IF patch.name = subjects[id].name THEN Absent
                            ELSE patch.name,
                            IF patch.code = subjects[id].code THEN Absent
                            ELSE patch.code, id))
            => (response'.status = "Conflict" /\ subjects' = subjects)]_vars
(***************************************************************************)
(* Claims about the answers of canUserTakeQuiz and getQuizStatistics.      *)
(***************************************************************************)
\* C26: for every stored quiz and every user, canUserTakeQuiz answers 200
\* with canTake true or false and never 500, also for a user without a
\* prior result whom the retake policy denies.
C26_EligibilityNeverFails ==
  [][\A id \in QuizIds, userId \in UserIds :
       (canUserTakeQuiz(id, userId) /\ QuizExists(id))
         => /\ response'.status = "200"
            /\ response'.data.canTake \in BOOLEAN]_vars
\* The sum of the counts of the five ranges.
SumCounts(dist) ==
  dist[1].count + dist[2].count + dist[3].count + dist[4].count
    + dist[5].count

\* C27: in the distribution returned by getQuizStatistics every result is
\* counted in at most one range, in exactly one when 0 < score <=
\* totalPoints and in none when the score is 0 or above totalPoints, so the
\* counts sum to the number of results with 0 < score <= totalPoints.
C27_BucketsDisjoint ==
  [][\A id \in QuizIds :
       (getQuizStatistics(id) /\ QuizExists(id))
         => LET mine == { i \in 1..Len(results) : results[i].quizId = id }
                points == quizzes[id].totalPoints
                inRange == { i \in mine : /\ results[i].score > 0
                                          /\ results[i].score <= points }
                dist == response'.data.scoreDistribution
            IN  /\ SumCounts(dist) = Cardinality(inRange)
                /\ SumCounts(dist) <= response'.data.totalAttempts
                /\ \A i \in mine :
                     SumCounts(calculateScoreDistribution({i}, points))
                       = IF i \in inRange THEN 1 ELSE 0]_vars

\* C27 witness: the statistics of quiz 1 were read with three results, of
\* scores 0, 2 and 11 out of 10, and the counts sum to 1.
C27_CountsBelowAttempts ==
  /\ response.op = "getQuizStatistics" /\ response.status = "200"
  /\ response.id = 1 /\ QuizExists(1)
  /\ response.data.totalAttempts = 3
  /\ { results[i].score : i \in ResultsOf(1) } = { 0, 2, 11 }
  /\ SumCounts(response.data.scoreDistribution) = 1
====
